---- MODULE Spec2Model ----
(***************************************************************************)
(* Types/_display/Collection: a read-only projection (sort, filter, group, *)
(* unique) over an observable source collection, with the change events it *)
(* raises for its listeners.                                               *)
(*                                                                         *)
(* Indices are the code's: 0-based.  A JavaScript array is a TLA+ sequence *)
(* read through AtOr/IndexOf/Splice/SetAt below.  The instance is threaded *)
(* through the handlers as one record.                                    *)
(***************************************************************************)
EXTENDS Integers, Sequences, FiniteSets, TLC

(* ------------------------------ bounds -------------------------------- *)

\* Source objects are 1..NumObjs; the source list holds each at most once.
NumObjs == 3
\* Longest queue of delayed per-item notifications the model lets build up.
MaxDelayed == 2
\* Operations performed on one instance after its construction.
MaxOps == 2
\* The same, in the runs that follow the source through its silent mode.
MaxSilentOps == 4
\* The same, in the runs over a source that holds one id twice.
MaxDupOps == 4

Oids == 1..NumObjs
Vals == {0, 1}

(* --------------------------- array helpers ---------------------------- *)

\* The single element of a one-element set.  A local constant of the source,
\* `const x = v; return body`, is written Only({ (body) : x \in {v} }):
\* v is evaluated once and the body sees its value.
Only(S) == CHOOSE r \in S : TRUE

Min(a, b) == IF a < b THEN a ELSE b
Max(a, b) == IF a > b THEN a ELSE b

\* arr[i] of JavaScript; `undef` when i is outside the array.
AtOr(s, i, undef) == IF i >= 0 /\ i < Len(s) THEN s[i + 1] ELSE undef

\* Array.prototype.indexOf: the first 0-based index of x, or -1.
IndexOf(s, x) ==
    IF \E k \in 1..Len(s) : s[k] = x
    THEN (CHOOSE k \in 1..Len(s) : s[k] = x /\ \A j \in 1..(k - 1) : s[j] # x) - 1
    ELSE -1

Contains(s, x) == \E k \in 1..Len(s) : s[k] = x

\* Array.prototype.slice(start, finish).
Slice(s, start, finish) ==
    LET a == Min(Max(start, 0), Len(s))
        b == Min(Max(finish, a), Len(s))
    IN  [k \in 1..(b - a) |-> s[a + k]]

\* Array.prototype.splice(start, deleteCount, ...ins): the array afterwards.
\* start and deleteCount are clamped to the array as JavaScript clamps them.
Splice(s, start, deleteCount, ins) ==
    LET a == Min(Max(start, 0), Len(s))
        d == Min(Max(deleteCount, 0), Len(s) - a)
    IN  Slice(s, 0, a) \o ins \o Slice(s, a + d, Len(s))

\* What splice(start, deleteCount) returns: the removed elements.
Spliced(s, start, deleteCount) ==
    LET a == Min(Max(start, 0), Len(s))
        d == Min(Max(deleteCount, 0), Len(s) - a)
    IN  Slice(s, a, a + d)

\* arr[i] = x of JavaScript: an index past the end grows the array, the
\* holes in between read as `undef`.
SetAt(s, i, x, undef) ==
    IF i < Len(s)
    THEN [s EXCEPT ![i + 1] = x]
    ELSE s \o [k \in 1..(i - Len(s)) |-> undef] \o <<x>>

Range(s) == {s[k] : k \in 1..Len(s)}

\* <<0, 1, ..., n-1>>
Iota(n) == [k \in 1..n |-> k - 1]

(* ------------------------ projection items ---------------------------- *)

\* A CollectionItem wraps one source object; the source list holds an object
\* at most once, so the wrapper is identified by the object it wraps.
CollectionItem(o) == [kind |-> "item", contents |-> o]
\* A GroupItem's contents is the group id.
GroupItem(g) == [kind |-> "group", contents |-> g]
\* items[i] for an i outside items.
Undefined == [kind |-> "undefined", contents |-> 0]

IsGroupItem(x) == x.kind = "group"
IsDataItem(x) == x.kind = "item"

\* Entries of the filter mask: true, false, or unset.
MaskTrue == "true"
MaskFalse == "false"
MaskUndefined == "undefined"
ToMask(b) == IF b THEN MaskTrue ELSE MaskFalse

\* The value of idProperty ('id') of a source object: objects 1 and NumObjs
\* carry the same id, the others their own.
IdOf(o) == IF o = NumObjs THEN 1 ELSE o

(* ------------------------------ state --------------------------------- *)

VARIABLES
    collection,     \* _$collection: the source list (objects, in source order)
    contents,       \* the source objects' property v, per object
    filter,         \* _$filter: the filter handlers, in order
    sort,           \* _$sort: the sort handlers, in order
    group,          \* _$group: the group handler, or "null"
    unique,         \* _$unique
    idProperty,     \* _$idProperty: "id", or "" when the option is not given
    importantItemProperties, \* _$importantItemProperties
    directItems,    \* DirectItemsStrategy._items: one wrapper per source index
    items,          \* the composed strategy's materialised items (memoised)
    filterMap,      \* _filterMap
    sortMap,        \* _sortMap
    selected,       \* the items whose selected flag is set
    itemToUid,      \* _itemToUid: the [item, uid] entries of the items that exist
    itemsUid,       \* _itemsUid: the uid strings in use
    eventRaising,   \* EventRaisingMixin._eventRaising of the projection
    sourceCollectionSynchronized,       \* _sourceCollectionSynchronized
    sourceCollectionDelayedCallbacks,   \* _sourceCollectionDelayedCallbacks
    cursor,         \* the cursor enumerator: [position, current]
    utility,        \* the utility enumerator: [position, current]
    lifecycle,      \* [subscribed: to the source's events, destroyed]
    events,         \* what the listeners received during the last operation
    thrown,         \* the error the last operation threw, or "none"
    trace,          \* bookkeeping of the last operation (not program state)
    opsLeft         \* the operations the run still performs

vars == <<collection, contents, filter, sort, group, unique, idProperty,
          importantItemProperties, directItems, items, filterMap, sortMap,
          selected, itemToUid, itemsUid, eventRaising,
          sourceCollectionSynchronized, sourceCollectionDelayedCallbacks,
          cursor, utility, lifecycle, events, thrown, trace, opsLeft>>

\* The Collection instance as one value: the handlers below are functions
\* from the instance before a call to the instance after it.  The field
\* `collection` is the reference to the live source.
Self ==
    [collection |-> collection, contents |-> contents, filter |-> filter,
     sort |-> sort, group |-> group, unique |-> unique,
     idProperty |-> idProperty,
     importantItemProperties |-> importantItemProperties,
     directItems |-> directItems, items |-> items, filterMap |-> filterMap,
     sortMap |-> sortMap, selected |-> selected, itemToUid |-> itemToUid,
     itemsUid |-> itemsUid, eventRaising |-> eventRaising,
     sourceCollectionSynchronized |-> sourceCollectionSynchronized,
     sourceCollectionDelayedCallbacks |-> sourceCollectionDelayedCallbacks,
     cursor |-> cursor, utility |-> utility, lifecycle |-> lifecycle,
     events |-> events,
     thrown |-> thrown, trace |-> trace]

\* The instance after an operation is r.
Commit(r) ==
    /\ collection' = r.collection
    /\ contents' = r.contents
    /\ filter' = r.filter
    /\ sort' = r.sort
    /\ group' = r.group
    /\ unique' = r.unique
    /\ idProperty' = r.idProperty
    /\ importantItemProperties' = r.importantItemProperties
    /\ directItems' = r.directItems
    /\ items' = r.items
    /\ filterMap' = r.filterMap
    /\ sortMap' = r.sortMap
    /\ selected' = r.selected
    /\ itemToUid' = r.itemToUid
    /\ itemsUid' = r.itemsUid
    /\ eventRaising' = r.eventRaising
    /\ sourceCollectionSynchronized' = r.sourceCollectionSynchronized
    /\ sourceCollectionDelayedCallbacks' = r.sourceCollectionDelayedCallbacks
    /\ cursor' = r.cursor
    /\ utility' = r.utility
    /\ lifecycle' = r.lifecycle
    /\ events' = r.events
    /\ thrown' = r.thrown
    /\ trace' = r.trace
    /\ opsLeft' = opsLeft - 1

(* ------------------------- handlers (user code) ----------------------- *)

\* Filter handlers.
\*   "valIsOne":   function(item) { return item.v === 1; }
\*                 reads the source value only; a group id has no v, so a
\*                 group header fails it.
\*   "notEmpty":   function(item, index, collectionItem, position, hasMembers)
\*                 { return collectionItem instanceof GroupItem ? hasMembers : true; }
\* "groupOrValIsOne": contents => typeof contents !== 'object' ||
\* contents.v === 1, which passes every group header (its contents are the
\* group id).
FilterHandlers == {"valIsOne", "notEmpty"}

\* Function.length of a filter handler.
FilterArity(f) == IF f = "notEmpty" THEN 5 ELSE 1

\* filter(item.getContents(), index, item, position, hasMembers)
CallFilter(self, f, item, index, position, hasMembers) ==
    IF f = "notEmpty"
    THEN (IF IsGroupItem(item) THEN hasMembers ELSE TRUE)
    ELSE IF f = "groupOrValIsOne"
    THEN IsGroupItem(item) \/ self.contents[item.contents] = 1
    ELSE IsDataItem(item) /\ self.contents[item.contents] = 1

\* Sort handlers.  "sortByVal": functor.Compute((a, b) => a.v - b.v, ['v']);
\* "sortByG": functor.Compute((a, b) => a.g - b.g, ['g']), which declares the
\* property the group handler declares (GroupOf is defined below).
SortHandlers == {"sortByVal"}
SortCompare(self, h, a, b) ==
    IF h = "sortByG"
    THEN (IF a = 1 THEN 1 ELSE 2) - (IF b = 1 THEN 1 ELSE 2)
    ELSE self.contents[a] - self.contents[b]

\* The property g of a source object (it never changes): object 1 is in
\* group 1, the others in group 2.
GroupOf(o) == IF o = 1 THEN 1 ELSE 2

\* Group handlers.  "groupByG": functor.Compute(item => item.g, ['g']).
GroupHandlers == {"groupByG"}
CallGroup(self, o) == GroupOf(o)

\* functor.Compute.isFunctor(func) and func.properties
IsFunctor(func) == func \in {"sortByVal", "sortByG", "groupByG"}
FunctorProperties(func) == IF func \in {"groupByG", "sortByG"} THEN {"g"} ELSE {"v"}

(* ------------------------ items strategies ---------------------------- *)

\* DirectItemsStrategy.sortItems: the source indices that get an item; with
\* unique set, an index whose id was met at a smaller index is skipped.
DirectOrder(self) ==
    LET n == Len(self.directItems)
        Kept(i) == \/ ~self.unique
                   \/ \A j \in 0..(i - 1) :
                        IdOf(self.directItems[j + 1]) # IdOf(self.directItems[i + 1])
    IN  SelectSeq(Iota(n), Kept)

\* UserItemsStrategy.sortItems compares by the chain of handlers: the first
\* handler that tells two items apart decides.
UserBefore(self, a, b) ==
    LET Decides(k) == SortCompare(self, self.sort[k], a, b) # 0
    IN  /\ \E k \in 1..Len(self.sort) : Decides(k)
        /\ LET k == CHOOSE k \in 1..Len(self.sort) :
                        Decides(k) /\ \A j \in 1..(k - 1) : ~Decides(j)
           IN  SortCompare(self, self.sort[k], a, b) < 0

\* The stable sort of s: s[k] comes behind the elements that go before it
\* and behind the earlier elements it is not before.
UserSorted(self, s) ==
    LET Rank(k) == Cardinality({j \in 1..Len(s) :
                        \/ UserBefore(self, s[j], s[k])
                        \/ j < k /\ ~UserBefore(self, s[k], s[j])})
    IN  [r \in 1..Len(s) |-> s[CHOOSE k \in 1..Len(s) : Rank(k) = r - 1]]

\* The source objects in the order the user strategy yields them.
UserItems(self) ==
    Only({ (
        Only({ ( UserSorted(self, direct))
          : direct \in {[k \in 1..Len(order) |-> self.directItems[order[k] + 1]]} }))
      : order \in {DirectOrder(self)} })

\* GroupItemsStrategy.sortItems: the groups in the order their first member
\* appears, each group's header followed by all its members.
GroupedItems(self, objs) ==
    LET Gid(k) == CallGroup(self, objs[k])
        First(k) == \A j \in 1..(k - 1) : Gid(j) # Gid(k)
        firsts == SelectSeq([k \in 1..Len(objs) |-> k], First)
        Members(g) == SelectSeq(objs, LAMBDA o : CallGroup(self, o) = g)
        RECURSIVE Build(_)
        Build(k) ==
            IF k > Len(firsts) THEN <<>>
            ELSE LET g == Gid(firsts[k])
                     m == Members(g)
                 IN  <<GroupItem(g)>> \o [j \in 1..Len(m) |-> CollectionItem(m[j])]
                        \o Build(k + 1)
    IN  Build(1)

\* The composed strategy's items: Direct, then User, then Group.
StrategyItems(self) ==
    Only({ (
        IF self.group = "null"
        THEN [k \in 1..Len(objs) |-> CollectionItem(objs[k])]
        ELSE GroupedItems(self, objs))
      : objs \in {UserItems(self)} })

\* IItemsStrategy.invalidate (every strategy drops its memoised order; the
\* next read computes it from the source values of that moment).
invalidate(self) == [self EXCEPT !.items = StrategyItems(self)]

\* IItemsStrategy.reset: the created items are dropped as well and made
\* again from the source.  The new items are other objects than the old
\* ones: none is selected and none is a key of _itemToUid.
reset(self) ==
    Only({ (
        [fresh EXCEPT !.items = StrategyItems(fresh), !.selected = {},
                      !.itemToUid = {}])
      : fresh \in {[self EXCEPT !.directItems = self.collection]} })

\* IItemsStrategy.splice(start, deleteCount, added), start a source index.
\* The items of the removed objects are gone with their state.
splice(self, start, deleteCount, added) ==
    Only({ (
            [s1 EXCEPT
                !.items = StrategyItems(s1),
                !.selected = @ \ {CollectionItem(o) :
                    o \in Range(Spliced(self.directItems, start, deleteCount))
                            \ Range(added)},
                !.itemToUid = {e \in @ : e.item \notin {CollectionItem(o) :
                    o \in Range(Spliced(self.directItems, start, deleteCount))
                            \ Range(added)}}])
      : s1 \in {[self EXCEPT !.directItems = Splice(@, start, deleteCount, added)]} })

\* IItemsStrategy.getDisplayIndex: the index in items of the item made for
\* source index `index`; items.length when there is none.
getDisplayIndex(self, index) ==
    LET it == CollectionItem(AtOr(self.directItems, index, 0))
    IN  IF index >= 0 /\ index < Len(self.directItems) /\ Contains(self.items, it)
        THEN IndexOf(self.items, it)
        ELSE Len(self.items)

\* IItemsStrategy.getCollectionIndex: the source index of items[index], -1
\* for a group header or an index outside items.
getCollectionIndex(self, index) ==
    LET it == AtOr(self.items, index, Undefined)
    IN  IF IsDataItem(it) THEN IndexOf(self.directItems, it.contents) ELSE -1

(* --------------------------- enumerator ------------------------------- *)

\* CollectionEnumerator's internal map: the entries of sortMap whose mask
\* entry is true, in sortMap order (visible position -> index in items).
internalToSource(self) ==
    SelectSeq(self.sortMap,
              LAMBDA i : AtOr(self.filterMap, i, MaskUndefined) = MaskTrue)

\* toArray(display): what each() enumerates.
toArray(self) ==
    Only({ (
        [k \in 1..Len(map) |-> AtOr(self.items, map[k], Undefined)])
      : map \in {internalToSource(self)} })

\* CollectionEnumerator.getInternalBySource: the visible position of
\* items[source], -1 when it is hidden.
getInternalBySource(self, source) ==
    IF source = -1 THEN -1
    ELSE Only({ ( IndexOf(map, source))
           : map \in {internalToSource(self)} })

\* CollectionEnumerator.getSourceByInternal: the index in items of the
\* visible position, -1 when there is no such position.
getSourceByInternal(self, internal) ==
    Only({ ( AtOr(map, internal, -1))
      : map \in {internalToSource(self)} })

\* Collection.getIndex(item): the visible position of the item, or -1.
getIndex(self, item) == Only({ ( IndexOf(array, item))
                          : array \in {toArray(self)} })

\* Collection._reIndex: CollectionEnumerator.reIndex on the cursor
\* enumerator and on the utility enumerator; the position is found again
\* from the current item.
reIndex(self) ==
    [self EXCEPT !.cursor.position =
        IF self.cursor.current = Undefined THEN -1
        ELSE getInternalBySource(self, IndexOf(self.items, self.cursor.current)),
                 !.utility.position =
        IF self.utility.current = Undefined THEN -1
        ELSE getInternalBySource(self, IndexOf(self.items, self.utility.current))]

(* ----------------------------- events --------------------------------- *)

Before == [name |-> "onBeforeCollectionChange", action |-> "", newItems |-> <<>>,
           newItemsIndex |-> 0, oldItems |-> <<>>, oldItemsIndex |-> 0]
After == [name |-> "onAfterCollectionChange", action |-> "", newItems |-> <<>>,
          newItemsIndex |-> 0, oldItems |-> <<>>, oldItemsIndex |-> 0]
Change(action, newItems, newItemsIndex, oldItems, oldItemsIndex) ==
    [name |-> "onCollectionChange", action |-> action, newItems |-> newItems,
     newItemsIndex |-> newItemsIndex, oldItems |-> oldItems,
     oldItemsIndex |-> oldItemsIndex]

\* ObservableMixin._notify / _notifyLater: outside a listener both deliver at
\* once, in call order.
notify(self, event) == [self EXCEPT !.events = Append(@, event)]

\* Collection._notifyBeforeCollectionChange
notifyBeforeCollectionChange(self) ==
    IF ~self.eventRaising THEN self ELSE notify(self, Before)

\* _notifyAfterCollectionChange that would never notify.
notifyAfterCollectionChangeNever(self) == self

\* Collection._notifyAfterCollectionChange
notifyAfterCollectionChange(self) ==
    IF ~self.eventRaising THEN self ELSE notify(self, After)

\* EventRaisingMixin._isNeedNotifyCollectionChange (a listener is subscribed)
isNeedNotifyCollectionChange(self) == self.eventRaising

\* Collection._isGrouped
isGrouped(self) == self.group # "null"

\* A cut that would flush the last packet only when the last item is not a
\* GroupItem (`else if (i === max - 1)`).
RECURSIVE SplitByGroupsElse(_, _, _)
SplitByGroupsElse(list, notifyIndex, i) ==
    IF i >= Len(list) THEN <<>>
    ELSE LET atGroup == IsGroupItem(list[i + 1])
             cut == IF atGroup /\ notifyIndex < i THEN <<(<<notifyIndex, i>>)>> ELSE <<>>
             from == IF atGroup THEN i ELSE notifyIndex
             last == IF i = Len(list) - 1 /\ ~atGroup THEN <<(<<from, i + 1>>)>> ELSE <<>>
         IN  cut \o last \o SplitByGroupsElse(list, from, i + 1)

\* The packets _notifyCollectionChange cuts a list into: a new packet starts
\* at every GroupItem (`notify(notifyIndex, i)` with start < finish).
\* Returns the <<start, finish>> pairs.
RECURSIVE SplitByGroups(_, _, _)
SplitByGroups(list, notifyIndex, i) ==
    IF i >= Len(list) THEN <<>>
    ELSE LET atGroup == IsGroupItem(list[i + 1])
             cut == IF atGroup /\ notifyIndex < i THEN <<(<<notifyIndex, i>>)>> ELSE <<>>
             from == IF atGroup THEN i ELSE notifyIndex
             last == IF i = Len(list) - 1 THEN <<(<<from, i + 1>>)>> ELSE <<>>
         IN  cut \o last \o SplitByGroups(list, from, i + 1)

\* The events of the packets, in order.
PackEvents(packs, action, newItems, newItemsIndex, oldItems, oldItemsIndex) ==
    [p \in 1..Len(packs) |->
        Change(action,
               Slice(newItems, packs[p][1], packs[p][2]),
               IF Len(newItems) > 0 THEN newItemsIndex + packs[p][1] ELSE 0,
               Slice(oldItems, packs[p][1], packs[p][2]),
               IF Len(oldItems) > 0 THEN oldItemsIndex + packs[p][1] ELSE 0)]

\* _notifyCollectionChange that would never split by groups.
notifyCollectionChangeWhole(self, action, newItems, newItemsIndex, oldItems, oldItemsIndex, hasSession) ==
    IF ~isNeedNotifyCollectionChange(self) THEN self
    ELSE notify(self, Change(action, newItems, newItemsIndex, oldItems, oldItemsIndex))

\* Collection._notifyCollectionChange
notifyCollectionChange(self, action, newItems, newItemsIndex, oldItems, oldItemsIndex, hasSession) ==
    IF ~isNeedNotifyCollectionChange(self) THEN self
    ELSE IF ~hasSession \/ action = "rs" \/ ~isGrouped(self)
    THEN notify(self, Change(action, newItems, newItemsIndex, oldItems, oldItemsIndex))
    ELSE Only({ (
                [self EXCEPT !.events = @ \o
                    PackEvents(packs, action, newItems, newItemsIndex,
                               oldItems, oldItemsIndex)])
           : packs \in {SplitByGroups(IF action = "rm" THEN oldItems ELSE newItems, 0, 0)} })

(* ----------------------- update session, differ ----------------------- *)

\* A session holds what each() enumerated when it was started; null when
\* event raising is off.
NullSession == [open |-> FALSE, before |-> <<>>]

\* EventRaisingMixin._startUpdateSession
startUpdateSession(self) ==
    IF ~self.eventRaising THEN NullSession
    ELSE [open |-> TRUE, before |-> toArray(self)]

\* The first maximal run of cur whose elements are not in `other`:
\* <<start, finish>>, or <<-1, -1>>.
FirstRunNotIn(cur, other) ==
    LET Missing(k) == ~Contains(other, cur[k])
    IN  IF \A k \in 1..Len(cur) : ~Missing(k) THEN <<-1, -1>>
        ELSE LET a == CHOOSE k \in 1..Len(cur) :
                          Missing(k) /\ \A j \in 1..(k - 1) : ~Missing(j)
                 b == CHOOSE k \in a..Len(cur) :
                          /\ \A j \in a..k : Missing(j)
                          /\ (k = Len(cur) \/ ~Missing(k + 1))
             IN  <<a - 1, b>>

\* One packet of the differ.
Packet(action, newItems, newItemsIndex, oldItems, oldItemsIndex) ==
    [action |-> action, newItems |-> newItems, newItemsIndex |-> newItemsIndex,
     oldItems |-> oldItems, oldItemsIndex |-> oldItemsIndex]

\* The removals that lead from `cur` towards `after`, one packet per run.
RECURSIVE DiffRemoved(_, _)
DiffRemoved(cur, after) ==
    Only({ (
        IF run[1] = -1 THEN <<>>
        ELSE Only({ (
                <<Packet("rm", <<>>, 0, Slice(cur, run[1], run[2]), run[1])>>
                \o DiffRemoved(rest, after))
               : rest \in {Splice(cur, run[1], run[2] - run[1], <<>>)} }))
      : run \in {FirstRunNotIn(cur, after)} })

AfterRemoved(before, after) == SelectSeq(before, LAMBDA x : Contains(after, x))

\* The additions, one packet per run of `after` that `cur` lacks.
RECURSIVE DiffAdded(_, _)
DiffAdded(cur, after) ==
    Only({ (
        IF run[1] = -1 THEN <<>>
        ELSE Only({ (
                <<Packet("a", Slice(after, run[1], run[2]), run[1], <<>>, 0)>>
                \o DiffAdded(more, after))
               : more \in {Splice(cur, run[1], 0, Slice(after, run[1], run[2]))} }))
      : run \in {FirstRunNotIn(after, cur)} })

\* `cur` with the elements of `after` it lacks, in after's order; the rest
\* keep their order.
AfterAdded(cur, after) ==
    LET kept == SelectSeq(after, LAMBDA x : Contains(cur, x))
        Place(k) == IF Contains(cur, after[k])
                    THEN cur[Cardinality({j \in 1..k : Contains(cur, after[j])})]
                    ELSE after[k]
    IN  IF Len(kept) = Len(cur) THEN [k \in 1..Len(after) |-> Place(k)] ELSE cur

\* The moves: at the first position where cur differs from after, the run
\* that belongs there is taken from further down (it moves up).
RECURSIVE DiffMoved(_, _)
DiffMoved(cur, after) ==
    IF cur = after \/ Len(cur) # Len(after) \/ Range(cur) # Range(after)
       \/ Cardinality(Range(cur)) # Len(cur)
    THEN <<>>
    ELSE LET i == CHOOSE k \in 1..Len(cur) :
                      cur[k] # after[k] /\ \A j \in 1..(k - 1) : cur[j] = after[j]
             j == IndexOf(cur, after[i]) + 1
             n == CHOOSE n \in 1..(Len(cur) - j + 1) :
                      /\ \A k \in 0..(n - 1) : cur[j + k] = after[i + k]
                      /\ (j + n > Len(cur) \/ cur[j + n] # after[i + n])
         IN  Only({ (
             Only({ (
                <<Packet("m", run, i - 1, run, j - 1)>> \o DiffMoved(next, after))
               : next \in {Splice(Splice(cur, j - 1, n, <<>>), i - 1, 0, run)} }))
               : run \in {Slice(cur, j - 1, j - 1 + n)} })

\* enumerableComparator.analizeSession: removed, then added, then moved.
analizeSession(before, after) ==
    Only({ (
    Only({ (
        DiffRemoved(before, after) \o DiffAdded(c1, after) \o DiffMoved(c2, after))
      : c2 \in {AfterAdded(c1, after)} }))
      : c1 \in {AfterRemoved(before, after)} })

RECURSIVE NotifyChanges(_, _, _)
NotifyChanges(self, changes, k) ==
    IF k > Len(changes) THEN self
    ELSE Only({ ( NotifyChanges(s1, changes, k + 1))
           : s1 \in {notifyCollectionChange(self, changes[k].action, changes[k].newItems,
                                     changes[k].newItemsIndex, changes[k].oldItems,
                                     changes[k].oldItemsIndex, TRUE)} })

\* _analizeUpdateSession that would notify before and after only around at
\* least one change.
analizeUpdateSessionIfChanged(self, session) ==
    IF ~session.open THEN self
    ELSE Only({ (
            IF changes = <<>> THEN self
            ELSE notifyAfterCollectionChange(
                    NotifyChanges(notifyBeforeCollectionChange(self), changes, 1)))
           : changes \in {analizeSession(session.before, toArray(self))} })

\* Collection._analizeUpdateSession
analizeUpdateSession(self, session) ==
    IF ~session.open THEN self
    ELSE Only({ (
         Only({ (
         Only({ (
            notifyAfterCollectionChange(s2))
           : s2 \in {NotifyChanges(s1, changes, 1)} }))
           : changes \in {analizeSession(session.before, toArray(s1))} }))
           : s1 \in {notifyBeforeCollectionChange(self)} })

\* EventRaisingMixin._finishUpdateSession
finishUpdateSession(self, session, analize) ==
    IF ~session.open THEN self
    ELSE IF analize THEN analizeUpdateSession(self, session)
    ELSE self

(* ------------------------ Collection: calculation --------------------- *)

\* Collection._isFiltered
isFiltered(self) == Len(self.filter) > 0

\* Collection._isFilterUseIndex
isFilterUseIndex(f) == FilterArity(f) > 3

\* Collection._isFilteredByIndex
isFilteredByIndex(self) ==
    \E k \in 1..Len(self.filter) : isFilterUseIndex(self.filter[k])

\* _reSort with a _buildSortMap that would list the visible indices only.
reSortVisibleOnly(self) ==
    Only({ ( reIndex(s1))
      : s1 \in {[self EXCEPT !.sortMap =
                    SelectSeq(Iota(Len(self.items)),
                              LAMBDA i : AtOr(self.filterMap, i, MaskUndefined) = MaskTrue)]} })

\* _reSort that would keep the map _addItems and _removeFromSortMap left.
reSortKeepMap(self) == reIndex(self)

\* Collection._reSort with _buildSortMap
reSort(self) ==
    Only({ ( reIndex(s1))
      : s1 \in {[self EXCEPT !.sortMap = Iota(Len(self.items))]} })

\* Collection._reGroup
reGroup(self) == invalidate(self)

\* Collection._resetFilter
resetFilter(self, count) ==
    Only({ ( reIndex(s1))
      : s1 \in {[self EXCEPT !.filterMap = [k \in 1..count |-> MaskTrue]]} })

\* _reFilter's isMatch: every filter in turn, stopping at the first that
\* fails.
isMatch(self, item, index, position, hasMembers) ==
    \A k \in 1..Len(self.filter) :
        CallFilter(self, self.filter[k], item, index, position, hasMembers)

\* _reFilter's applyMatch: the mask after it, and whether it changed.
applyMatch(fm, match, index) ==
    LET oldMatch == AtOr(fm, index, MaskUndefined)
    IN  IF ToMask(match) = oldMatch THEN [filterMap |-> fm, changed |-> FALSE]
        ELSE IF match
        THEN [filterMap |-> SetAt(fm, index, MaskTrue, MaskUndefined), changed |-> TRUE]
        ELSE IF oldMatch # MaskUndefined
        THEN [filterMap |-> SetAt(fm, index, MaskFalse, MaskUndefined), changed |-> TRUE]
        ELSE [filterMap |-> fm, changed |-> FALSE]

\* applyMatch for the group met last, when there is one.
applyPrevGroup(self, acc) ==
    IF acc.prevGroup # Undefined
    THEN applyMatch(acc.filterMap,
                    isMatch(self, acc.prevGroup, acc.prevGroupIndex,
                            acc.prevGroupPosition, acc.prevGroupHasMembers),
                    acc.prevGroupIndex)
    ELSE [filterMap |-> acc.filterMap, changed |-> FALSE]

\* One turn of _reFilter's loop over sortMap; acc carries the loop's locals.
reFilterStep(self, start, finish, position, acc) ==
    LET index == self.sortMap[position + 1]
        item == AtOr(self.items, index, Undefined)
    IN  IF index < start \/ index >= finish THEN acc
        ELSE IF IsGroupItem(item)
        THEN Only({ (
                [acc EXCEPT !.processed = @ \cup {index},
                            !.filterMap = r.filterMap,
                            !.changed = r.changed \/ @,
                            !.prevGroup = item,
                            !.prevGroupIndex = index,
                            !.prevGroupPosition = position,
                            !.prevGroupHasMembers = FALSE])
               : r \in {applyPrevGroup(self, acc)} })
        ELSE Only({ (
             Only({ (
                [acc EXCEPT !.processed = @ \cup {index},
                            !.filterMap = r.filterMap,
                            !.changed = r.changed \/ @,
                            !.prevGroupHasMembers = match \/ @])
               : r \in {applyMatch(acc.filterMap, match, index)} }))
               : match \in {isMatch(self, item, index, position, FALSE)} })

RECURSIVE reFilterLoop(_, _, _, _, _)
reFilterLoop(self, start, finish, position, acc) ==
    IF position >= Len(self.sortMap) THEN acc
    ELSE Only({ (
            reFilterLoop(self, start, finish, position + 1, next))
           : next \in {reFilterStep(self, start, finish, position, acc)} })

\* filterMap[index] = undefined for the indices of the range the loop did
\* not meet.
RECURSIVE unsetUnprocessed(_, _, _, _)
unsetUnprocessed(fm, index, finish, processed) ==
    IF index >= finish THEN fm
    ELSE Only({ ( unsetUnprocessed(next, index + 1, finish, processed))
           : next \in {IF index \in processed THEN fm
              ELSE SetAt(fm, index, MaskUndefined, MaskUndefined)} })

\* Collection._reFilter(start, count); count 0 stands for "not given".
reFilter(self, start, count) ==
    LET finish == start + (IF count = 0 THEN Len(self.items) - start ELSE count)
    IN  Only({ (
        Only({ (
        Only({ (
        Only({ (
            IF acc.changed \/ r.changed THEN reIndex(s1) ELSE s1)
          : s1 \in {[self EXCEPT !.filterMap = r.filterMap]} }))
          : r \in {applyPrevGroup(self, [acc EXCEPT !.filterMap = fm1])} }))
          : fm1 \in {unsetUnprocessed(acc.filterMap, start, finish, acc.processed)} }))
          : acc \in {reFilterLoop(self, start, finish, 0,
                [filterMap |-> self.filterMap, processed |-> {}, changed |-> FALSE,
                 prevGroup |-> Undefined, prevGroupIndex |-> -1,
                 prevGroupPosition |-> -1, prevGroupHasMembers |-> FALSE])} })

\* Collection._reBuild
reBuild(self, doReset) ==
    Only({ (
    Only({ (
    Only({ (
    Only({ (
    Only({ (
        IF isFiltered(s5) THEN reFilter(s5, 0, 0) ELSE s5)
      : s5 \in {resetFilter(s4, Len(s4.items))} }))
      : s4 \in {reSort(s3)} }))
      : s3 \in {reGroup(s2)} }))
      : s2 \in {IF doReset THEN reset(s1) ELSE s1} }))
      : s1 \in {reIndex(self)} })

(* ------------------------ Collection: changing ------------------------ *)

\* Collection._addItems
addItems(self, start, added) ==
    Only({ (
    Only({ (
        [s1 EXCEPT
           !.filterMap = Splice(@, innerIndex, 0,
                                [k \in 1..Len(added) |-> ToMask(~isFiltered(self))]),
           !.sortMap = Splice(@, innerIndex, 0,
                              [k \in 1..Len(added) |-> innerIndex + k - 1])])
      : innerIndex \in {getDisplayIndex(s1, start)} }))
      : s1 \in {splice(self, start, 0, added)} })

\* Collection._removeFromSortMap
removeFromSortMap(self, start, count) ==
    LET toRemove == {IndexOf(self.sortMap, index) :
                        index \in start..(start + count - 1)} \ {-1}
        keptAt == SelectSeq(Iota(Len(self.sortMap)), LAMBDA k : k \notin toRemove)
        Shifted(index) == IF index >= start THEN index - count ELSE index
    IN  Only({ ( reIndex(s1))
          : s1 \in {[self EXCEPT !.sortMap =
                [k \in 1..Len(keptAt) |-> Shifted(self.sortMap[keptAt[k] + 1])]]} })

\* _removeItems that would pass the removal on to the source.
removeItemsFromSource(self, start, count) ==
    Only({ (
    Only({ (
    Only({ (
    Only({ (
        [s3 EXCEPT !.collection = Splice(@, start, count, <<>>)])
      : s3 \in {removeFromSortMap(s2, innerIndex, count)} }))
      : s2 \in {[s1 EXCEPT !.filterMap = Splice(@, innerIndex, count, <<>>)]} }))
      : innerIndex \in {getDisplayIndex(s1, start)} }))
      : s1 \in {splice(self, start, count, <<>>)} })

\* Collection._removeItems
removeItems(self, start, count) ==
    Only({ (
    Only({ (
    Only({ (
        removeFromSortMap(s2, innerIndex, count))
      : s2 \in {[s1 EXCEPT !.filterMap = Splice(@, innerIndex, count, <<>>)]} }))
      : innerIndex \in {getDisplayIndex(s1, start)} }))
      : s1 \in {splice(self, start, count, <<>>)} })

\* Collection._replaceItems
replaceItems(self, start, newItems) == splice(self, start, Len(newItems), newItems)

\* Collection._moveItems: the spliced-out items themselves are put back, so
\* they keep their state.
moveItems(self, newIndex, oldIndex, moved) ==
    Only({ (
    Only({ (
        [s2 EXCEPT !.selected = self.selected, !.itemToUid = self.itemToUid])
      : s2 \in {splice(s1, newIndex, 0, moved)} }))
      : s1 \in {splice(self, oldIndex, Len(moved), <<>>)} })

\* onCollectionChange, ACTION_ADD
onCollectionChangeAdd(self, newItems, newItemsIndex) ==
    Only({ (
    Only({ (
    Only({ ( reFilter(s3, 0, 0))
      : s3 \in {reSort(s2)} }))
      : s2 \in {reGroup(s1)} }))
      : s1 \in {addItems(self, newItemsIndex, newItems)} })

\* onCollectionChange, ACTION_REMOVE
onCollectionChangeRemove(self, oldItems, oldItemsIndex) ==
    Only({ (
    Only({ (
        IF isFiltered(s2) /\ isFilteredByIndex(s2) THEN reFilter(s2, 0, 0) ELSE s2)
      : s2 \in {reSort(s1)} }))
      : s1 \in {removeItems(self, oldItemsIndex, Len(oldItems))} })

\* onCollectionChange, ACTION_REPLACE
onCollectionChangeReplace(self, newItems, newItemsIndex) ==
    Only({ (
    Only({ (
    Only({ ( reFilter(s3, 0, 0))
      : s3 \in {reSort(s2)} }))
      : s2 \in {reGroup(s1)} }))
      : s1 \in {replaceItems(self, newItemsIndex, newItems)} })

\* onCollectionChange, ACTION_MOVE
onCollectionChangeMove(self, newItems, newItemsIndex, oldItemsIndex) ==
    Only({ (
    Only({ ( reFilter(s2, 0, 0))
      : s2 \in {reSort(s1)} }))
      : s1 \in {moveItems(self, newItemsIndex, oldItemsIndex, newItems)} })

\* The ACTION_RESET branch that would read the old items after the rebuild.
onCollectionChangeResetLate(self, action) ==
    Only({ (
    Only({ (
    Only({ (
    Only({ (
        notifyAfterCollectionChange(s3))
      : s3 \in {notifyCollectionChange(s2, action, projectionNewItems, 0,
                                projectionNewItems, 0, FALSE)} }))
      : s2 \in {notifyBeforeCollectionChange(s1)} }))
      : projectionNewItems \in {toArray(s1)} }))
      : s1 \in {reBuild(self, TRUE)} })

\* onCollectionChange, ACTION_RESET
onCollectionChangeReset(self, action) ==
    Only({ (
    Only({ (
    Only({ (
    Only({ (
    Only({ (
        notifyAfterCollectionChange(s3))
      : s3 \in {notifyCollectionChange(s2, action, projectionNewItems, 0,
                                projectionOldItems, 0, FALSE)} }))
      : s2 \in {notifyBeforeCollectionChange(s1)} }))
      : projectionNewItems \in {toArray(s1)} }))
      : s1 \in {reBuild(self, TRUE)} }))
      : projectionOldItems \in {toArray(self)} })

\* onCollectionChange that would finish its session without the analysis.
onCollectionChangeUnanalized(self, action, newItems, newItemsIndex, oldItems, oldItemsIndex) ==
    IF action = "rs" THEN onCollectionChangeReset(self, action)
    ELSE Only({ (
         Only({ ( finishUpdateSession(s1, session, FALSE))
           : s1 \in {CASE action = "a" -> onCollectionChangeAdd(self, newItems, newItemsIndex)
                [] action = "rm" -> onCollectionChangeRemove(self, oldItems, oldItemsIndex)
                [] action = "rp" -> onCollectionChangeReplace(self, newItems, newItemsIndex)
                [] action = "m" ->
                     onCollectionChangeMove(self, newItems, newItemsIndex, oldItemsIndex)
                [] OTHER -> self} }))
           : session \in {startUpdateSession(self)} })

\* onCollectionChange: the handler of the source's onCollectionChange, for
\* every action but change
onCollectionChange(self, action, newItems, newItemsIndex, oldItems, oldItemsIndex) ==
    IF action = "rs" THEN onCollectionChangeReset(self, action)
    ELSE Only({ (
         Only({ ( finishUpdateSession(s1, session, TRUE))
           : s1 \in {CASE action = "a" -> onCollectionChangeAdd(self, newItems, newItemsIndex)
                [] action = "rm" -> onCollectionChangeRemove(self, oldItems, oldItemsIndex)
                [] action = "rp" -> onCollectionChangeReplace(self, newItems, newItemsIndex)
                [] action = "m" ->
                     onCollectionChangeMove(self, newItems, newItemsIndex, oldItemsIndex)
                [] OTHER -> self} }))
           : session \in {startUpdateSession(self)} })

(* -------------------- Collection: important properties ---------------- *)

\* Collection._functorToImportantProperties with _setImportantProperty and
\* _unsetImportantProperty
functorToImportantProperties(func, props, add) ==
    IF func # "null" /\ IsFunctor(func)
    THEN (IF add THEN props \cup FunctorProperties(func)
                 ELSE props \ FunctorProperties(func))
    ELSE props

\* The loop of _switchImportantPropertiesByUserSort
RECURSIVE switchSortLoop(_, _, _, _)
switchSortLoop(handlers, k, props, add) ==
    IF k > Len(handlers) THEN props
    ELSE Only({ (
            switchSortLoop(handlers, k + 1, next, add))
           : next \in {functorToImportantProperties(handlers[k], props, add)} })

\* Collection._switchImportantPropertiesByUserSort
switchImportantPropertiesByUserSort(self, add) ==
    [self EXCEPT !.importantItemProperties = switchSortLoop(self.sort, 1, @, add)]

\* Collection._switchImportantPropertiesByGroup
switchImportantPropertiesByGroup(self, add) ==
    [self EXCEPT !.importantItemProperties =
                    functorToImportantProperties(self.group, @, add)]

(* ---------------------- Collection: public setters -------------------- *)

\* What setFilter, addFilter and removeFilter do once the list has changed.
filterChanged(self, filters) ==
    Only({ (
    Only({ (
    Only({ ( finishUpdateSession(s2, session, TRUE))
      : s2 \in {reFilter(s1, 0, 0)} }))
      : session \in {startUpdateSession(s1)} }))
      : s1 \in {[self EXCEPT !.filter = filters]} })

\* setFilter that would not compare the list with the current one.
setFilterAlways(self, filters) == filterChanged(self, filters)

\* Collection.setFilter
setFilter(self, filters) ==
    IF filters = self.filter THEN self ELSE filterChanged(self, filters)

\* Collection.addFilter(filter): appended
addFilter(self, f) ==
    IF Contains(self.filter, f) THEN self
    ELSE filterChanged(self, Append(self.filter, f))

\* removeFilter that would take the filter off the list and leave the mask
\* as it is.
removeFilterKeepMask(self, f) ==
    IF IndexOf(self.filter, f) = -1 THEN self
    ELSE [self EXCEPT !.filter = Splice(@, IndexOf(self.filter, f), 1, <<>>)]

\* Collection.removeFilter
removeFilter(self, f) ==
    IF IndexOf(self.filter, f) = -1 THEN self
    ELSE filterChanged(self, Splice(self.filter, IndexOf(self.filter, f), 1, <<>>))

\* setGroup that would not compare the handler with the current one.
setGroupAlways(self, g) ==
    Only({ (
    Only({ (
    Only({ (
    Only({ (
    Only({ (
    Only({ (
        finishUpdateSession(s4, session, TRUE))
      : s4 \in {reFilter(s3, 0, 0)} }))
      : s3 \in {reSort(s2)} }))
      : s2 \in {invalidate(s1)} }))
      : s1 \in {switchImportantPropertiesByGroup([s0 EXCEPT !.group = g], TRUE)} }))
      : session \in {startUpdateSession(s0)} }))
      : s0 \in {switchImportantPropertiesByGroup(self, FALSE)} })

\* setGroup that would leave the strategies' order as it is.
setGroupKeepOrder(self, g) ==
    IF self.group = g THEN self
    ELSE Only({ (
         Only({ (
         Only({ (
         Only({ (
         Only({ (
            finishUpdateSession(s4, session, TRUE))
           : s4 \in {reFilter(s3, 0, 0)} }))
           : s3 \in {reSort(s1)} }))
           : s1 \in {switchImportantPropertiesByGroup([s0 EXCEPT !.group = g], TRUE)} }))
           : session \in {startUpdateSession(s0)} }))
           : s0 \in {switchImportantPropertiesByGroup(self, FALSE)} })

\* Collection.setGroup
setGroup(self, g) ==
    IF self.group = g THEN self
    ELSE Only({ (
         Only({ (
         Only({ (
         Only({ (
         Only({ (
         Only({ (
            finishUpdateSession(s4, session, TRUE))
           : s4 \in {reFilter(s3, 0, 0)} }))
           : s3 \in {reSort(s2)} }))
           : s2 \in {invalidate(s1)} }))
           : s1 \in {switchImportantPropertiesByGroup([s0 EXCEPT !.group = g], TRUE)} }))
           : session \in {startUpdateSession(s0)} }))
           : s0 \in {switchImportantPropertiesByGroup(self, FALSE)} })

\* setSort that would not compare the handlers with the current ones.
setSortAlways(self, sorts) ==
    Only({ (
    Only({ (
    Only({ (
    Only({ (
    Only({ (
    Only({ (
        finishUpdateSession(s4, session, TRUE))
      : s4 \in {IF isFiltered(s3) THEN reFilter(s3, 0, 0) ELSE s3} }))
      : s3 \in {reSort(s2)} }))
      : s2 \in {invalidate(s1)} }))
      : s1 \in {switchImportantPropertiesByUserSort([s0 EXCEPT !.sort = sorts], TRUE)} }))
      : s0 \in {switchImportantPropertiesByUserSort(self, FALSE)} }))
      : session \in {startUpdateSession(self)} })

\* A method returns while the session it has started is not finished: the
\* bookkeeping counts it.
returnUnfinished(self, session) ==
    IF session.open THEN [self EXCEPT !.trace.unfinished = @ + 1] ELSE self

\* Collection.setSort: the session is started before the handlers are
\* compared with the current ones.
setSort(self, sorts) ==
    Only({ (
        IF sorts = self.sort THEN returnUnfinished(self, session)
        ELSE Only({ (
             Only({ (
             Only({ (
             Only({ (
             Only({ (
                finishUpdateSession(s4, session, TRUE))
               : s4 \in {IF isFiltered(s3) THEN reFilter(s3, 0, 0) ELSE s3} }))
               : s3 \in {reSort(s2)} }))
               : s2 \in {invalidate(s1)} }))
               : s1 \in {switchImportantPropertiesByUserSort([s0 EXCEPT !.sort = sorts], TRUE)} }))
               : s0 \in {switchImportantPropertiesByUserSort(self, FALSE)} }))
      : session \in {startUpdateSession(self)} })

\* Collection.setUnique
setUnique(self, u) ==
    IF self.unique = u THEN self
    ELSE Only({ (
         Only({ (
         Only({ ( finishUpdateSession(s2, session, TRUE))
           : s2 \in {reSort(s1)} }))
           : s1 \in {invalidate([self EXCEPT !.unique = u])} }))
           : session \in {startUpdateSession(self)} })

(* ---------------------- per-item change protocol ---------------------- *)

\* The <<item, index>> pairs sorted by index (equal indices keep the order
\* of the list).
SortByIndex(s) ==
    LET Rank(k) == Cardinality({j \in 1..Len(s) :
                        s[j][2] < s[k][2] \/ (s[j][2] = s[k][2] /\ j < k)})
    IN  [r \in 1..Len(s) |-> s[CHOOSE k \in 1..Len(s) : Rank(k) = r - 1]]

\* The packs of the sorted pairs: runs of consecutive indices, each as
\* <<items, index of the first>>.
PacksOf(sorted) ==
    LET Starts(k) == k = 1 \/ sorted[k][2] # sorted[k - 1][2] + 1
        starts == SelectSeq([k \in 1..Len(sorted) |-> k], Starts)
        End(p) == IF p = Len(starts) THEN Len(sorted) ELSE starts[p + 1] - 1
    IN  [p \in 1..Len(starts) |->
            <<[k \in 1..(End(p) - starts[p] + 1) |-> sorted[starts[p] + k - 1][1]],
              sorted[starts[p]][2]>>]

\* EventRaisingMixin._extractPacksByList: the items by their index in the
\* projection, cut into packs of neighbours.
extractPacksByList(self, list) ==
    Only({ (
    Only({ ( PacksOf(sorted))
      : sorted \in {SortByIndex(pairs)} }))
      : pairs \in {[k \in 1..Len(list) |-> <<list[k], getIndex(self, list[k])>>]} })

RECURSIVE NotifyChangePacks(_, _, _, _)
NotifyChangePacks(self, packs, k, hasSession) ==
    IF k > Len(packs) THEN self
    ELSE Only({ ( NotifyChangePacks(s1, packs, k + 1, hasSession))
           : s1 \in {notifyCollectionChange(self, "ch", packs[k][1], packs[k][2],
                                     packs[k][1], packs[k][2], hasSession)} })

\* _reAnalize that would re-filter the range only, whether or not the item
\* has moved.
reAnalizeRange(self, start, count) ==
    Only({ (
    Only({ (
    Only({ (
    Only({ (
    Only({ (
    Only({ (
        finishUpdateSession(s4, session, TRUE))
      : s4 \in {reFilter(s3, indexAfter, count)} }))
      : s3 \in {reSort(s2)} }))
      : s2 \in {reGroup(s1)} }))
      : indexAfter \in {getDisplayIndex(s1, start)} }))
      : s1 \in {invalidate(self)} }))
      : session \in {startUpdateSession(self)} })

\* Collection._reAnalize(start, count)
reAnalize(self, start, count) ==
    Only({ (
    Only({ (
    Only({ (
    Only({ (
    Only({ (
    Only({ (
    Only({ (
        finishUpdateSession(s4, session, TRUE))
      : s4 \in {IF indexBefore # indexAfter \/ isFilteredByIndex(s3)
         THEN reFilter(s3, 0, 0)
         ELSE reFilter(s3, indexAfter, count)} }))
      : s3 \in {reSort(s2)} }))
      : s2 \in {reGroup(s1)} }))
      : indexAfter \in {getDisplayIndex(s1, start)} }))
      : s1 \in {invalidate(self)} }))
      : indexBefore \in {getDisplayIndex(self, start)} }))
      : session \in {startUpdateSession(self)} })

\* A callback that would always put the changed item into the diff.
beforeCheckAlways(internalItem, indexBefore, indexAfter) == <<internalItem>>

\* The callback _notifySourceCollectionItemChange hands to _checkItemsDiff:
\* what it makes of the diff by state, which is empty (the analysis changes
\* no selected flag and the items are the ones the state was taken of).
beforeCheck(internalItem, indexBefore, indexAfter) ==
    IF indexBefore # indexAfter
    THEN (IF indexBefore < indexAfter THEN <<internalItem>> ELSE <<>>)
    ELSE <<internalItem>>

\* Collection._checkItemsDiff, `diff` what the callback left of the diff
checkItemsDiff(self, session, diff) ==
    IF Len(diff) > 0
    THEN Only({ (
         Only({ (
         Only({ (
            notifyAfterCollectionChange(s2))
           : s2 \in {NotifyChangePacks(s1, packs, 1, session.open)} }))
           : packs \in {extractPacksByList(s1, diff)} }))
           : s1 \in {notifyBeforeCollectionChange(self)} })
    ELSE self

\* What _notifySourceCollectionItemChange did, for the record.
ItemChanged(internalItem, indexBefore, indexAfter, isEventRaising, analysis, packets) ==
    [internalItem |-> internalItem, indexBefore |-> indexBefore,
     indexAfter |-> indexAfter, eventRaising |-> isEventRaising,
     analysis |-> analysis, packets |-> packets]

\* _notifySourceCollectionItemChange that would run the analysis whatever
\* property has changed.
notifySourceCollectionItemChangeAlways(self, item, index, properties) ==
    Only({ (
    Only({ (
    Only({ (
    Only({ (
    Only({ (
    Only({ (
    Only({ (
        [s2 EXCEPT !.trace.changes =
            Append(@, ItemChanged(internalItem, indexBefore, indexAfter,
                        self.eventRaising,
                        SubSeq(s1.events, Len(self.events) + 1, Len(s1.events)),
                        SubSeq(s2.events, Len(s1.events) + 1, Len(s2.events))))])
      : s2 \in {IF ~self.eventRaising THEN s1
         ELSE checkItemsDiff(s1, session,
                             beforeCheck(internalItem, indexBefore, indexAfter))} }))
      : indexAfter \in {getInternalBySource(s1, getDisplayIndex(s1, index))} }))
      : s1 \in {reAnalize(self, index, 1)} }))
      : session \in {startUpdateSession(self)} }))
      : indexBefore \in {getInternalBySource(self, internalIndexBefore)} }))
      : internalItem \in {AtOr(self.items, internalIndexBefore, Undefined)} }))
      : internalIndexBefore \in {getDisplayIndex(self, index)} })

\* Collection._notifySourceCollectionItemChange
notifySourceCollectionItemChange(self, item, index, properties) ==
    Only({ (
    Only({ (
    Only({ (
    Only({ (
    Only({ (
    Only({ (
    Only({ (
        [s2 EXCEPT !.trace.changes =
            Append(@, ItemChanged(internalItem, indexBefore, indexAfter,
                        self.eventRaising,
                        SubSeq(s1.events, Len(self.events) + 1, Len(s1.events)),
                        SubSeq(s2.events, Len(s1.events) + 1, Len(s2.events))))])
      : s2 \in {IF ~self.eventRaising THEN s1
         ELSE checkItemsDiff(s1, session,
                             beforeCheck(internalItem, indexBefore, indexAfter))} }))
      : indexAfter \in {getInternalBySource(s1, getDisplayIndex(s1, index))} }))
      : s1 \in {IF properties \cap self.importantItemProperties # {}
         THEN reAnalize(self, index, 1)
         ELSE self} }))
      : session \in {startUpdateSession(self)} }))
      : indexBefore \in {getInternalBySource(self, internalIndexBefore)} }))
      : internalItem \in {AtOr(self.items, internalIndexBefore, Undefined)} }))
      : internalIndexBefore \in {getDisplayIndex(self, index)} })

\* One delayed callback: [this._notifySourceCollectionItemChange, arguments]
Callback(item, index, properties) ==
    [item |-> item, index |-> index, properties |-> properties]

\* onCollectionItemChange: the handler of the source's onCollectionItemChange
onCollectionItemChange(self, item, index, properties) ==
    IF ~self.eventRaising THEN self
    ELSE IF self.sourceCollectionSynchronized
    THEN notifySourceCollectionItemChange(self, item, index, properties)
    ELSE [self EXCEPT !.sourceCollectionDelayedCallbacks =
             Append(@, Callback(item, index, properties))]

\* The while loop of onEventRaisingChange: the delayed callbacks, first one
\* first.
RECURSIVE callDelayed(_)
callDelayed(self) ==
    IF self.sourceCollectionDelayedCallbacks = <<>> THEN self
    ELSE Only({ (
         Only({ (
         Only({ (
            callDelayed(s2))
           : s2 \in {[s1 EXCEPT !.sourceCollectionDelayedCallbacks = Tail(@),
                         !.trace.replayed = Append(@, callback)]} }))
           : s1 \in {notifySourceCollectionItemChange(self, callback.item, callback.index,
                                               callback.properties)} }))
           : callback \in {Head(self.sourceCollectionDelayedCallbacks)} })

\* onEventRaisingChange that would rebuild after it has called the delayed
\* callbacks.
onEventRaisingChangeLate(self, enabled, analyze) ==
    Only({ (
    Only({ (
        IF ~analyze /\ enabled THEN reBuild(s2, TRUE) ELSE s2)
      : s2 \in {IF enabled THEN callDelayed(s1) ELSE s1} }))
      : s1 \in {[self EXCEPT !.sourceCollectionSynchronized = enabled]} })

\* onEventRaisingChange: the handler of the source's onEventRaisingChange
onEventRaisingChange(self, enabled, analyze) ==
    Only({ (
    Only({ (
        IF enabled THEN callDelayed(s2) ELSE s2)
      : s2 \in {[s1 EXCEPT !.sourceCollectionSynchronized = enabled]} }))
      : s1 \in {IF ~analyze /\ enabled THEN reBuild(self, TRUE) ELSE self} })

\* Collection._notifyCollectionItemsChange
notifyCollectionItemsChange(self, changed, index, hasSession) ==
    Only({ (
    Only({ (
    Only({ (
    Only({ (
        notifyAfterCollectionChange(s2))
      : s2 \in {NotifyChangePacks(s1, packs, 1, hasSession)} }))
      : packs \in {extractPacksByList(s1, changedItems)} }))
      : s1 \in {notifyBeforeCollectionChange(self)} }))
      : changedItems \in {[k \in 1..Len(changed) |->
            AtOr(self.items, getDisplayIndex(self, index + k - 1), Undefined)]} })

\* onCollectionChange, ACTION_CHANGE
onCollectionChangeChange(self, newItems, newItemsIndex) ==
    Only({ (
    Only({ (
    Only({ (
    Only({ (
    Only({ (
        notifyCollectionItemsChange(s4, newItems, newItemsIndex, session.open))
      : s4 \in {finishUpdateSession(s3, session, FALSE)} }))
      : s3 \in {reFilter(s2, 0, 0)} }))
      : s2 \in {reSort(s1)} }))
      : s1 \in {reGroup(self)} }))
      : session \in {startUpdateSession(self)} })

(* ------------------ Collection: notifications, selection -------------- *)

\* The analysis notifyItemChange starts with when the projection is
\* filtered or grouped.
notifyItemChangeAnalysis(self) ==
    IF ~(isFiltered(self) \/ isGrouped(self)) THEN self
    ELSE Only({ (
         Only({ (
         Only({ (
         Only({ (
            finishUpdateSession(s3, session, TRUE))
           : s3 \in {IF isFiltered(self) THEN reFilter(s2, 0, 0) ELSE s2} }))
           : s2 \in {IF isGrouped(self) THEN reSort(s1) ELSE s1} }))
           : s1 \in {IF isGrouped(self) THEN reGroup(self) ELSE self} }))
           : session \in {startUpdateSession(self)} })

\* notifyItemChange that would read the index of the item before the
\* analysis and notify the change ahead of it.
notifyItemChangeFirst(self, item, properties) ==
    IF ~self.eventRaising THEN notifyItemChangeAnalysis(self)
    ELSE Only({ (
         Only({ (
         Only({ (
            notifyItemChangeAnalysis(s3))
           : s3 \in {notifyAfterCollectionChange(s2)} }))
           : s2 \in {notifyCollectionChange(s1, "ch", <<item>>,
                        getIndex(self, item), <<item>>, getIndex(self, item), FALSE)} }))
           : s1 \in {notifyBeforeCollectionChange(self)} })

\* Collection.notifyItemChange
notifyItemChange(self, item, properties) ==
    Only({ (
        IF ~s1.eventRaising THEN s1
        ELSE Only({ (
             Only({ (
             Only({ (
                notifyAfterCollectionChange(s3))
               : s3 \in {notifyCollectionChange(s2, "ch", <<item>>, index, <<item>>, index,
                                         FALSE)} }))
               : s2 \in {notifyBeforeCollectionChange(s1)} }))
               : index \in {getIndex(s1, item)} }))
      : s1 \in {notifyItemChangeAnalysis(self)} })

\* The loop of _setSelectedItems: from the last item down, the items whose
\* flag differs.
selectLoop(self, selecItems, flag) ==
    SelectSeq([k \in 1..Len(selecItems) |-> selecItems[Len(selecItems) + 1 - k]],
              LAMBDA x : (x \in self.selected) # flag)

\* _setSelectedItems that would set the flags and notify nobody.
setSelectedItemsUnnotified(self, selecItems, flag) ==
    Only({ (
        [self EXCEPT !.selected = IF flag THEN @ \cup Range(changed)
                                  ELSE @ \ Range(changed)])
      : changed \in {selectLoop(self, selecItems, flag)} })

\* Collection._setSelectedItems
setSelectedItems(self, selecItems, flag) ==
    Only({ (
    Only({ (
        IF Len(changed) > 0
        THEN Only({ (
             Only({ (
             Only({ (
                notifyAfterCollectionChange(s3))
               : s3 \in {notifyCollectionChange(s2, "rp", changed, index, changed, index,
                                         FALSE)} }))
               : s2 \in {notifyBeforeCollectionChange(s1)} }))
               : index \in {getIndex(s1, changed[1])} })
        ELSE s1)
      : s1 \in {[self EXCEPT !.selected = IF flag THEN @ \cup Range(changed)
                                           ELSE @ \ Range(changed)]} }))
      : changed \in {selectLoop(self, selecItems, flag)} })

\* Collection.setSelectedItemsAll
setSelectedItemsAll(self, flag) == setSelectedItems(self, self.items, flag)

\* Collection.getItemBySourceItem: the source's index of the object, the
\* index in items of its item, the visible position of that, and at() of
\* it; undefined when the object is not in the source or its item is not
\* visible.
getItemBySourceItem(self, o) ==
    Only({ (
        IF sourceIndex = -1 THEN Undefined
        ELSE Only({ (
                IF index = -1 THEN Undefined
                ELSE AtOr(toArray(self), index, Undefined))
               : index \in {getInternalBySource(self,
                                getDisplayIndex(self, sourceIndex))} }))
      : sourceIndex \in {IndexOf(self.collection, o)} })

\* Collection.getSourceIndexByItem (with getSourceIndexByIndex): the source
\* index of a visible item, -1 for a hidden item and for a group header.
getSourceIndexByItem(self, item) ==
    Only({ (
        IF index = -1 THEN -1
        ELSE getCollectionIndex(self, getSourceByInternal(self, index)))
      : index \in {getIndex(self, item)} })

\* Collection.setSelectedItems(items, selected), items source objects.  An
\* object without a visible item yields undefined, on which
\* _setSelectedItems fails (selecItems[i].isSelected()) when its loop, which
\* runs from the last item down, arrives there: the items behind it have
\* their flag set by then and nothing is notified.
setSelectedItemsPublic(self, objs, flag) ==
    Only({ (
        IF ~Contains(sourceItems, Undefined)
        THEN setSelectedItems(self, sourceItems, flag)
        ELSE Only({ (
                [self EXCEPT !.thrown = "TypeError",
                             !.selected = IF flag THEN @ \cup Range(changed)
                                          ELSE @ \ Range(changed)])
               : changed \in {selectLoop(self,
                    SubSeq(sourceItems,
                           1 + Max(Len(sourceItems) - IndexOf(reversed, Undefined), 0),
                           Len(sourceItems)),
                    flag)} }))
      : reversed \in {[k \in 1..Len(objs) |->
                        getItemBySourceItem(self, objs[Len(objs) + 1 - k])]},
        sourceItems \in {[k \in 1..Len(objs) |-> getItemBySourceItem(self, objs[k])]} })

\* invertSelectedItemsAll that would set the flag of every item.
invertSelectedItemsAllSetting(self) ==
    Only({ (
    Only({ (
    Only({ (
        notifyAfterCollectionChange(s3))
      : s3 \in {notifyCollectionChange(s2, "rs", s1.items, 0, s1.items, 0, FALSE)} }))
      : s2 \in {notifyBeforeCollectionChange(s1)} }))
      : s1 \in {[self EXCEPT !.selected = @ \cup Range(self.items)]} })

\* Collection.invertSelectedItemsAll
invertSelectedItemsAll(self) ==
    Only({ (
    Only({ (
    Only({ (
        notifyAfterCollectionChange(s3))
      : s3 \in {notifyCollectionChange(s2, "rs", s1.items, 0, s1.items, 0, FALSE)} }))
      : s2 \in {notifyBeforeCollectionChange(s1)} }))
      : s1 \in {[self EXCEPT !.selected =
                    (@ \ Range(self.items)) \cup (Range(self.items) \ @)]} })

\* _searchItemUid that would not record the uid it has found.
RECURSIVE searchItemUidUnrecorded(_, _, _)
searchItemUidUnrecorded(uids, baseId, count) ==
    Only({ (
        IF uid \in uids THEN searchItemUidUnrecorded(uids, baseId, count + 1)
        ELSE [uid |-> uid, itemsUid |-> uids])
      : uid \in {IF count = 0 THEN baseId ELSE baseId \o "-" \o ToString(count)} })

\* Collection._searchItemUid: the uid found and _itemsUid with it; `count`
\* is the loop's counter, 0 at the call.
RECURSIVE searchItemUid(_, _, _)
searchItemUid(uids, baseId, count) ==
    Only({ (
        IF uid \in uids THEN searchItemUid(uids, baseId, count + 1)
        ELSE [uid |-> uid, itemsUid |-> uids \cup {uid}])
      : uid \in {IF count = 0 THEN baseId ELSE baseId \o "-" \o ToString(count)} })

\* getItemUid that would take the id of an item for undefined when no
\* idProperty is given.
getItemUidLenient(self, item) ==
    IF \E e \in self.itemToUid : e.item = item
    THEN [self EXCEPT !.trace.item = item,
                      !.trace.result =
                          (CHOOSE e \in self.itemToUid : e.item = item).uid]
    ELSE Only({ (
            [self EXCEPT !.itemsUid = found.itemsUid,
                         !.itemToUid = @ \cup {[item |-> item, uid |-> found.uid]},
                         !.trace.item = item,
                         !.trace.result = found.uid])
           : found \in {searchItemUid(self.itemsUid,
                            IF IsGroupItem(item) \/ self.idProperty = ""
                            THEN "undefined"
                            ELSE ToString(IdOf(item.contents)),
                            0)} })

\* Collection.getItemUid with _exctractItemId: the contents of an item are
\* plain objects or group ids, never a Model, so the id is String() of the
\* value of idProperty of the contents, and an Error when no idProperty is
\* given; a group header's contents, the group id, has no such property and
\* gives String(undefined).
getItemUid(self, item) ==
    IF \E e \in self.itemToUid : e.item = item
    THEN [self EXCEPT !.trace.item = item,
                      !.trace.result =
                          (CHOOSE e \in self.itemToUid : e.item = item).uid]
    ELSE IF self.idProperty = ""
    THEN [self EXCEPT !.thrown = "MissingIdProperty", !.trace.item = item]
    ELSE Only({ (
            [self EXCEPT !.itemsUid = found.itemsUid,
                         !.itemToUid = @ \cup {[item |-> item, uid |-> found.uid]},
                         !.trace.item = item,
                         !.trace.result = found.uid])
           : found \in {searchItemUid(self.itemsUid,
                            IF IsGroupItem(item) THEN "undefined"
                            ELSE ToString(IdOf(item.contents)),
                            0)} })

\* EventRaisingMixin.setEventRaising(enabled) of the projection, analyze off
setEventRaising(self, enabled) == [self EXCEPT !.eventRaising = enabled]

\* assign, append, prepend, clear, add, remove, removeAt, replace, move:
\* throw new Error(MESSAGE_READ_ONLY)
Mutators == {"assign", "append", "prepend", "clear", "add", "remove", "removeAt",
             "replace", "move"}

\* A mutator that would clear the projection before it fails.
readOnlyAfterClear(self) ==
    [self EXCEPT !.thrown = "ReadOnly", !.items = <<>>, !.filterMap = <<>>,
                 !.sortMap = <<>>]

\* Collection.assign, append, prepend, clear, add, remove, removeAt, replace,
\* move: throw new Error(MESSAGE_READ_ONLY)
readOnly(self) == [self EXCEPT !.thrown = "ReadOnly"]

(* ------------------------------ cursor -------------------------------- *)

CurrentChange(newCurrent, oldCurrent, newPosition, oldPosition) ==
    [name |-> "onCurrentChange", action |-> "", newItems |-> <<newCurrent>>,
     newItemsIndex |-> newPosition, oldItems |-> <<oldCurrent>>,
     oldItemsIndex |-> oldPosition]

\* Collection._notifyCurrentChange
notifyCurrentChange(self, newCurrent, oldCurrent, newPosition, oldPosition) ==
    IF ~self.eventRaising THEN self
    ELSE notify(self, CurrentChange(newCurrent, oldCurrent, newPosition, oldPosition))

\* CollectionEnumerator.setPosition on the cursor enumerator
enumeratorSetPosition(self, position) ==
    [self EXCEPT !.cursor =
        [position |-> position,
         current |-> IF position > -1
                     THEN AtOr(self.items, getSourceByInternal(self, position), Undefined)
                     ELSE Undefined]]

\* Collection.setCurrentPosition
setCurrentPosition(self, position, silent) ==
    IF position = self.cursor.position THEN self
    ELSE Only({ (
            IF silent THEN s1
            ELSE notifyCurrentChange(s1, s1.cursor.current, self.cursor.current,
                                     position, self.cursor.position))
           : s1 \in {enumeratorSetPosition(self, position)} })

\* CollectionEnumerator.setCurrent on the cursor enumerator: the position of
\* the item among the visible items, and no current item when it is not
\* among them.
enumeratorSetCurrent(self, item) ==
    Only({ (
        [self EXCEPT !.cursor =
            [position |-> position,
             current |-> IF position = -1 THEN Undefined ELSE item]])
      : position \in {getIndex(self, item)} })

\* Collection.setCurrent
setCurrent(self, item, silent) ==
    IF self.cursor.current = item THEN self
    ELSE Only({ (
            IF silent THEN s1
            ELSE notifyCurrentChange(s1, s1.cursor.current, self.cursor.current,
                                     s1.cursor.position, self.cursor.position))
           : s1 \in {enumeratorSetCurrent(self, item)} })

\* Collection.moveToNext: CollectionEnumerator.moveNext on the cursor
\* enumerator moves when a visible item follows.
moveToNext(self) ==
    Only({ (
        IF next >= Len(toArray(self))
        THEN [self EXCEPT !.trace.result = "false"]
        ELSE Only({ (
                [notifyCurrentChange(s1, s1.cursor.current, self.cursor.current,
                                     s1.cursor.position, self.cursor.position)
                   EXCEPT !.trace.result = "true"])
               : s1 \in {enumeratorSetPosition(self, next)} }))
      : next \in {self.cursor.position + 1} })

\* Collection.moveToPrevious: CollectionEnumerator.movePrevious moves when a
\* visible item precedes.
moveToPrevious(self) ==
    Only({ (
        IF next < 0
        THEN [self EXCEPT !.trace.result = "false"]
        ELSE Only({ (
                [notifyCurrentChange(s1, s1.cursor.current, self.cursor.current,
                                     s1.cursor.position, self.cursor.position)
                   EXCEPT !.trace.result = "true"])
               : s1 \in {enumeratorSetPosition(self, next)} }))
      : next \in {self.cursor.position - 1} })

\* Collection.moveToFirst
moveToFirst(self) ==
    IF self.cursor.position = 0 THEN [self EXCEPT !.trace.result = "false"]
    ELSE Only({ (
            [s1 EXCEPT !.trace.result =
                IF s1.cursor.position = 0 THEN "true" ELSE "false"])
           : s1 \in {setCurrentPosition(self, 0, FALSE)} })

\* Collection.moveToLast
moveToLast(self) ==
    Only({ (
        IF self.cursor.position = position
        THEN [self EXCEPT !.trace.result = "false"]
        ELSE Only({ (
                [s1 EXCEPT !.trace.result =
                    IF s1.cursor.position = position THEN "true" ELSE "false"])
               : s1 \in {setCurrentPosition(self, position, FALSE)} }))
      : position \in {Len(toArray(self)) - 1} })

(* ---------------------------- navigation ----------------------------- *)

\* CollectionEnumerator.setPosition on the utility enumerator
utilitySetPosition(self, position) ==
    [self EXCEPT !.utility =
        [position |-> position,
         current |-> IF position > -1
                     THEN AtOr(self.items, getSourceByInternal(self, position), Undefined)
                     ELSE Undefined]]

\* The loop of _getNearbyItem with skipGroups set: moveNext or movePrevious
\* until the enumerator stands on an item that is no group header; undefined
\* once it cannot move.
RECURSIVE nearbyLoop(_, _)
nearbyLoop(self, isNext) ==
    Only({ (
        IF next < 0 \/ next >= Len(internalToSource(self))
        THEN [self EXCEPT !.trace.item = Undefined]
        ELSE Only({ (
                IF IsGroupItem(s1.utility.current)
                THEN nearbyLoop(s1, isNext)
                ELSE [s1 EXCEPT !.trace.item = s1.utility.current])
               : s1 \in {utilitySetPosition(self, next)} }))
      : next \in {self.utility.position + (IF isNext THEN 1 ELSE -1)} })

\* Collection._getNearbyItem(enumerator, item, isNext, true) on the utility
\* enumerator: enumerator.setCurrent(item), then the loop.
getNearbyItem(self, item, isNext) ==
    Only({ ( nearbyLoop(s1, isNext))
      : s1 \in {[self EXCEPT !.utility =
                    [position |-> getIndex(self, item),
                     current |-> IF getIndex(self, item) = -1 THEN Undefined
                                 ELSE item]]} })

\* getFirst that would work on the cursor enumerator.
getFirstOnCursor(self) ==
    Only({ (
        IF IsGroupItem(s1.cursor.current)
        THEN getNearbyItem(s1, s1.cursor.current, TRUE)
        ELSE [s1 EXCEPT !.trace.item = s1.cursor.current])
      : s1 \in {enumeratorSetPosition(self, 0)} })

\* Collection.getFirst
getFirst(self) ==
    Only({ (
        IF IsGroupItem(s1.utility.current)
        THEN getNearbyItem(s1, s1.utility.current, TRUE)
        ELSE [s1 EXCEPT !.trace.item = s1.utility.current])
      : s1 \in {utilitySetPosition(self, 0)} })

\* Collection.getLast
getLast(self) ==
    Only({ (
        IF IsGroupItem(s1.utility.current)
        THEN getNearbyItem(s1, Undefined, FALSE)
        ELSE [s1 EXCEPT !.trace.item = s1.utility.current])
      : s1 \in {utilitySetPosition(self, Len(internalToSource(self)) - 1)} })

\* Collection.getGroupItems(groupId): each() over the visible items
RECURSIVE getGroupItems(_, _, _, _)
getGroupItems(self, groupId, k, currentGroupId) ==
    Only({ (
        IF k > Len(array) THEN <<>>
        ELSE IF IsGroupItem(array[k])
        THEN getGroupItems(self, groupId, k + 1, array[k].contents)
        ELSE IF currentGroupId = groupId
        THEN <<array[k]>> \o getGroupItems(self, groupId, k + 1, currentGroupId)
        ELSE getGroupItems(self, groupId, k + 1, currentGroupId))
      : array \in {toArray(self)} })

(* ----------------------------- lifecycle ------------------------------ *)

\* DestroyableMixin: what every method but destroy is once the instance is
\* destroyed.
dontTouchDeads(self) == [self EXCEPT !.thrown = "Destroyed"]

\* destroy that would leave the handlers subscribed to the source.
destroySubscribed(self) ==
    [self EXCEPT !.lifecycle = [subscribed |-> @.subscribed, destroyed |-> TRUE],
                 !.items = <<>>, !.directItems = <<>>,
                 !.filterMap = <<>>, !.sortMap = <<>>,
                 !.itemToUid = {}, !.itemsUid = {},
                 !.cursor = [position |-> -1, current |-> Undefined],
                 !.utility = [position |-> -1, current |-> Undefined]]

\* destroy that would be rejected, like every other method, once the
\* instance is destroyed.
destroyOnce(self) ==
    IF self.lifecycle.destroyed THEN dontTouchDeads(self)
    ELSE [self EXCEPT !.lifecycle = [subscribed |-> FALSE, destroyed |-> TRUE],
                      !.items = <<>>, !.directItems = <<>>,
                      !.filterMap = <<>>, !.sortMap = <<>>,
                      !.itemToUid = {}, !.itemsUid = {},
                      !.cursor = [position |-> -1, current |-> Undefined],
                      !.utility = [position |-> -1, current |-> Undefined]]

\* Collection.destroy: the handlers are unsubscribed from the source, the
\* composer, the maps, the uids and the enumerators are dropped, then
\* DestroyableMixin.destroy marks the instance.
destroy(self) ==
    [self EXCEPT !.lifecycle = [subscribed |-> FALSE, destroyed |-> TRUE],
                 !.items = <<>>, !.directItems = <<>>,
                 !.filterMap = <<>>, !.sortMap = <<>>,
                 !.itemToUid = {}, !.itemsUid = {},
                 !.cursor = [position |-> -1, current |-> Undefined],
                 !.utility = [position |-> -1, current |-> Undefined]]

(* ------------------------------ actions ------------------------------- *)

\* Bookkeeping of one operation: its name, the delayed callbacks it called,
\* the per-item changes it handled, the item and the result of a query, and
\* the update sessions it has started and returned without finishing.
NoTrace == [op |-> "new", replayed |-> <<>>, changes |-> <<>>,
            item |-> Undefined, result |-> "", unfinished |-> 0]

\* The instance at the start of an operation: nothing delivered yet.
Begin == [Self EXCEPT !.events = <<>>, !.thrown = "none", !.trace = NoTrace]

\* The same, the source already changed (the source raises its event after
\* it has changed).
BeginWith(list, props) ==
    [Begin EXCEPT !.collection = list, !.contents = props]

\* The operation `op` has led to the instance r.
Run(op, r) ==
    /\ opsLeft > 0
    /\ \E done \in {[r EXCEPT !.trace.op = op]} : Commit(done)

\* The property v of an object: a value of Vals while the object is in the
\* source, NoContents otherwise.
NoContents == Min(0, 0)
Contents == Vals

\* The filter lists, sort lists and group handlers the callers pass.
FilterLists == {<<>>, <<"valIsOne">>, <<"notEmpty">>, <<"valIsOne", "notEmpty">>}
SortLists == {<<>>, <<"sortByVal">>}
GroupArgs == {"null", "groupByG"}

\* The source lists an instance is constructed over, and the values of v.
SourceLists == {<<1, 2>>}
SourceContents(list) ==
    {c \in [Oids -> Vals \cup {NoContents}] :
        \A o \in Oids : IF Contains(list, o) THEN c[o] \in Vals ELSE c[o] = NoContents}

\* new Collection({collection, idProperty, filter, sort, group, unique}):
\* the constructor; idProperty is important when it is given.
constructorWith(list, props, filters, sorts, g, u, idProp) ==
    Only({ (
    Only({ (
    Only({ (
        reBuild(s2, FALSE))
      : s2 \in {switchImportantPropertiesByGroup(s1, TRUE)} }))
      : s1 \in {switchImportantPropertiesByUserSort(s0, TRUE)} }))
      : s0 \in {[collection |-> list, contents |-> props, filter |-> filters,
          sort |-> sorts, group |-> g, unique |-> u,
          idProperty |-> idProp,
          importantItemProperties |-> IF idProp # "" THEN {idProp} ELSE {},
          directItems |-> list, items |-> <<>>, filterMap |-> <<>>,
          sortMap |-> <<>>, selected |-> {}, itemToUid |-> {},
          itemsUid |-> {}, eventRaising |-> TRUE,
          sourceCollectionSynchronized |-> TRUE,
          sourceCollectionDelayedCallbacks |-> <<>>,
          cursor |-> [position |-> -1, current |-> Undefined],
          utility |-> [position |-> -1, current |-> Undefined],
          lifecycle |-> [subscribed |-> TRUE, destroyed |-> FALSE],
          events |-> <<>>, thrown |-> "none", trace |-> NoTrace]} })

\* new Collection({collection, idProperty: 'id', filter, sort, group, unique}).
constructor(list, props, filters, sorts, g, u) ==
    constructorWith(list, props, filters, sorts, g, u, "id")

\* The instance is r, with `ops` operations to come.
Constructed(r, ops) ==
    /\ collection = r.collection
    /\ contents = r.contents
    /\ filter = r.filter
    /\ sort = r.sort
    /\ group = r.group
    /\ unique = r.unique
    /\ idProperty = r.idProperty
    /\ importantItemProperties = r.importantItemProperties
    /\ directItems = r.directItems
    /\ items = r.items
    /\ filterMap = r.filterMap
    /\ sortMap = r.sortMap
    /\ selected = r.selected
    /\ itemToUid = r.itemToUid
    /\ itemsUid = r.itemsUid
    /\ eventRaising = r.eventRaising
    /\ sourceCollectionSynchronized = r.sourceCollectionSynchronized
    /\ sourceCollectionDelayedCallbacks = r.sourceCollectionDelayedCallbacks
    /\ cursor = r.cursor
    /\ utility = r.utility
    /\ lifecycle = r.lifecycle
    /\ events = r.events
    /\ thrown = r.thrown
    /\ trace = r.trace
    /\ opsLeft = ops

Init ==
    \E list \in SourceLists, filters \in FilterLists, sorts \in SortLists,
       g \in GroupArgs, u \in BOOLEAN :
        \E props \in SourceContents(list) :
            \E r \in {constructor(list, props, filters, sorts, g, u)} :
                Constructed(r, MaxOps)

\* The source adds object o at index i and raises onCollectionChange(add).
SourceAdd ==
    \E o \in Oids \ Range(collection), i \in 0..Len(collection), c \in Contents :
        /\ sourceCollectionSynchronized
        /\ \E self \in {BeginWith(Splice(collection, i, 0, <<o>>),
                                  [contents EXCEPT ![o] = c])} :
              Run("add", onCollectionChange(self, "a", <<o>>, i, <<>>, 0))

\* The source removes the object at index i and raises onCollectionChange(remove).
SourceRemove ==
    \E i \in 0..(Len(collection) - 1) :
        /\ sourceCollectionSynchronized
        /\ \E self \in {BeginWith(Splice(collection, i, 1, <<>>),
                                  [contents EXCEPT ![collection[i + 1]] = NoContents])} :
              Run("remove",
                  onCollectionChange(self, "rm", <<>>, 0, <<collection[i + 1]>>, i))

\* The source replaces the object at index i by o and raises
\* onCollectionChange(replace).
SourceReplace ==
    \E i \in 0..(Len(collection) - 1), o \in Oids \ Range(collection), c \in Contents :
        /\ sourceCollectionSynchronized
        /\ \E self \in {BeginWith(Splice(collection, i, 1, <<o>>),
                                  [contents EXCEPT ![o] = c,
                                                   ![collection[i + 1]] = NoContents])} :
              Run("replace",
                  onCollectionChange(self, "rp", <<o>>, i, <<collection[i + 1]>>, i))

\* The source moves the object at index from to index to and raises
\* onCollectionChange(move).
SourceMove ==
    \E from \in 0..(Len(collection) - 1), to \in 0..(Len(collection) - 1) :
        /\ sourceCollectionSynchronized
        /\ from # to
        /\ \E o \in {collection[from + 1]} :
           \E self \in {BeginWith(Splice(Splice(collection, from, 1, <<>>), to, 0, <<o>>),
                                  contents)} :
              Run("move", onCollectionChange(self, "m", <<o>>, to, <<o>>, from))

\* The source is assigned its own content in reverse order, or cleared, and
\* raises onCollectionChange(reset).
SourceReset ==
    \E clear \in BOOLEAN :
        /\ sourceCollectionSynchronized
        /\ collection # <<>>
        /\ \E list \in {IF clear THEN <<>>
                        ELSE [k \in 1..Len(collection) |->
                                collection[Len(collection) + 1 - k]]} :
           \E self \in {BeginWith(list, IF clear THEN [o \in Oids |-> NoContents]
                                        ELSE contents)} :
              Run("reset", onCollectionChange(self, "rs", list, 0, collection, 0))

\* The property v of the object at index i changes and the source raises
\* onCollectionItemChange.
SourceItemChange ==
    \E i \in 0..(Len(collection) - 1), c \in Contents :
        /\ Len(sourceCollectionDelayedCallbacks) < MaxDelayed
        /\ c # contents[collection[i + 1]]
        /\ \E self \in {BeginWith(collection,
                                  [contents EXCEPT ![collection[i + 1]] = c])} :
              Run("itemChange",
                  onCollectionItemChange(self, collection[i + 1], i, {"v"}))

\* The source raises onCollectionChange(change) for the object at index i,
\* the property v of which has changed.
SourceChange ==
    \E i \in 0..(Len(collection) - 1), c \in Contents :
        /\ sourceCollectionSynchronized
        /\ c # contents[collection[i + 1]]
        /\ \E self \in {BeginWith(collection,
                                  [contents EXCEPT ![collection[i + 1]] = c])} :
              Run("change", onCollectionChangeChange(self, <<collection[i + 1]>>, i))

\* The source raises onEventRaisingChange(enabled, analyze).
SourceEventRaising ==
    \E enabled \in BOOLEAN, analyze \in BOOLEAN, self \in {Begin} :
        /\ enabled # sourceCollectionSynchronized
        /\ Run("eventRaisingChange", onEventRaisingChange(self, enabled, analyze))

SetFilter ==
    \E fs \in FilterLists, self \in {Begin} : Run("setFilter", setFilter(self, fs))

AddFilter ==
    \E f \in FilterHandlers, self \in {Begin} : Run("addFilter", addFilter(self, f))

RemoveFilter ==
    \E f \in FilterHandlers, self \in {Begin} :
        Run("removeFilter", removeFilter(self, f))

SetSort ==
    \E ss \in SortLists, self \in {Begin} : Run("setSort", setSort(self, ss))

SetGroup ==
    \E g \in GroupArgs, self \in {Begin} : Run("setGroup", setGroup(self, g))

SetUnique ==
    \E u \in BOOLEAN, self \in {Begin} : Run("setUnique", setUnique(self, u))

SetEventRaising ==
    \E enabled \in BOOLEAN, self \in {Begin} :
        Run("setEventRaising", setEventRaising(self, enabled))

NotifyItemChange ==
    \E k \in 1..Len(items), self \in {Begin} :
        Run("notifyItemChange", notifyItemChange(self, items[k], {"selected"}))

SetSelectedItemsAll ==
    \E flag \in BOOLEAN, self \in {Begin} :
        Run("setSelectedItemsAll", setSelectedItemsAll(self, flag))

Mutate ==
    \E m \in Mutators, self \in {Begin} : Run(m, readOnly(self))

SetCurrentPosition ==
    \E self \in {Begin} :
        \E position \in -1..(Len(toArray(self)) - 1), silent \in BOOLEAN :
            Run("setCurrentPosition", setCurrentPosition(self, position, silent))

\* setSelectedItems with one or two objects of the source.
SetSelectedItems ==
    \E o1 \in Range(collection), o2 \in Range(collection), flag \in BOOLEAN,
       self \in {Begin} :
        Run("setSelectedItems",
            setSelectedItemsPublic(self, IF o1 = o2 THEN <<o1>> ELSE <<o1, o2>>, flag))

InvertSelectedItemsAll ==
    \E self \in {Begin} :
        Run("invertSelectedItemsAll", invertSelectedItemsAll(self))

\* getItemUid of an item of the projection, visible or not.
GetItemUid ==
    \E k \in 1..Len(items), self \in {Begin} :
        Run("getItemUid", getItemUid(self, items[k]))

\* The source's structural events and per-item changes, the projection's
\* setters and its notifications; the source stays synchronised.
Next ==
    \/ SourceAdd
    \/ SourceRemove
    \/ SourceReplace
    \/ SourceMove
    \/ SourceReset
    \/ SourceItemChange
    \/ SourceChange
    \/ SetFilter
    \/ AddFilter
    \/ RemoveFilter
    \/ SetSort
    \/ SetGroup
    \/ SetUnique
    \/ SetEventRaising
    \/ NotifyItemChange
    \/ SetSelectedItemsAll

Spec == Init /\ [][Next]_vars

\* The source goes silent and comes back while its objects change; the
\* projection switches its own events off and on.
InitSilent ==
    \E list \in SourceLists, filters \in FilterLists, sorts \in SortLists :
        \E props \in SourceContents(list) :
            \E r \in {constructor(list, props, filters, sorts, "null", FALSE)} :
                Constructed(r, MaxSilentOps)

NextSilent ==
    \/ SourceEventRaising
    \/ SourceItemChange
    \/ SetEventRaising

SpecSilent == InitSilent /\ [][NextSilent]_vars

\* Every operation of the projection but the mutators, which fail, and
\* every event of the source.
NextAll ==
    \/ SourceAdd
    \/ SourceRemove
    \/ SourceReplace
    \/ SourceMove
    \/ SourceReset
    \/ SourceItemChange
    \/ SourceChange
    \/ SourceEventRaising
    \/ SetFilter
    \/ AddFilter
    \/ RemoveFilter
    \/ SetSort
    \/ SetGroup
    \/ SetUnique
    \/ SetEventRaising
    \/ NotifyItemChange
    \/ SetSelectedItems
    \/ SetSelectedItemsAll
    \/ InvertSelectedItemsAll
    \/ GetItemUid
    \/ SetCurrentPosition

SpecAll == Init /\ [][NextAll]_vars

\* A source that holds every object, two of them with the same id; unique
\* is switched, uids are asked for, the source loses objects and is reset.
InitDup ==
    \E list \in {[k \in 1..NumObjs |-> k]}, filters \in {<<>>, <<"valIsOne">>},
       g \in GroupArgs, u \in BOOLEAN :
        \E props \in SourceContents(list) :
            \E r \in {constructor(list, props, filters, <<>>, g, u)} :
                Constructed(r, MaxDupOps)

NextDup ==
    \/ SetUnique
    \/ GetItemUid
    \/ SourceRemove
    \/ SourceReset

SpecDup == InitDup /\ [][NextDup]_vars

\* The callers of the mutation guard: the cursor is placed, a filter is set,
\* a mutator is called.
NextGuard ==
    \/ Mutate
    \/ SetCurrentPosition
    \/ SetFilter

SpecGuard == Init /\ [][NextGuard]_vars

\* Instances whose sort handlers and group handler may declare the same
\* property, under setSort and setGroup.
SortListsG == {<<>>, <<"sortByVal">>, <<"sortByG">>, <<"sortByVal", "sortByG">>}

InitProps ==
    \E list \in SourceLists, filters \in FilterLists, sorts \in SortListsG,
       g \in GroupArgs :
        \E props \in SourceContents(list) :
            \E r \in {constructor(list, props, filters, sorts, g, FALSE)} :
                Constructed(r, MaxOps)

SetSortG ==
    \E ss \in SortListsG, self \in {Begin} : Run("setSort", setSort(self, ss))

NextProps ==
    \/ SetSortG
    \/ SetGroup

SpecProps == InitProps /\ [][NextProps]_vars

\* Instances over three objects whose filter may pass the group headers
\* and hide their members, under the navigation queries.
InitNav ==
    \E filters \in {<<>>, <<"valIsOne">>, <<"groupOrValIsOne">>},
       sorts \in SortLists, g \in GroupArgs :
        \E list \in {[k \in 1..NumObjs |-> k]} :
            \E props \in SourceContents(list) :
                \E r \in {constructor(list, props, filters, sorts, g, FALSE)} :
                    Constructed(r, MaxOps)

GetFirst ==
    \E self \in {Begin} :
        /\ toArray(self) # <<>>
        /\ Run("getFirst", getFirst(self))

GetLast ==
    \E self \in {Begin} : Run("getLast", getLast(self))

\* getNext(item) and getPrevious(item) of a visible item.
GetNearby ==
    \E self \in {Begin}, isNext \in BOOLEAN :
        \E item \in Range(toArray(self)) :
            Run(IF isNext THEN "getNext" ELSE "getPrevious",
                getNearbyItem(self, item, isNext))

\* getItemBySourceItem(o) and, through it, getIndexBySourceItem,
\* getIndexBySourceIndex and at.
GetItemBySourceItem ==
    \E self \in {Begin}, o \in Range(collection) :
        Run("getItemBySourceItem",
            [self EXCEPT !.trace.item = getItemBySourceItem(self, o)])

NextNav ==
    \/ GetFirst
    \/ GetLast
    \/ GetNearby
    \/ GetItemBySourceItem
    \/ SetCurrentPosition
    \/ SourceRemove

SpecNav == InitNav /\ [][NextNav]_vars

\* destroy, and what follows it.
Destroy ==
    \E self \in {Begin} : Run("destroy", destroy(self))

\* The source is cleared and raises onCollectionChange(reset): the handler
\* is called while it is subscribed, and fails like every method when the
\* instance is destroyed.
SourceClear ==
    /\ collection # <<>>
    /\ \E self \in {BeginWith(<<>>, [o \in Oids |-> NoContents])} :
          Run("reset",
              IF ~self.lifecycle.subscribed THEN self
              ELSE IF self.lifecycle.destroyed THEN dontTouchDeads(self)
              ELSE onCollectionChange(self, "rs", <<>>, 0, collection, 0))

\* A public method is called: setFilter, getLast or setCurrentPosition.
PublicCall ==
    \E self \in {Begin}, op \in {"setFilter", "getLast", "setCurrentPosition"} :
        Run(op,
            IF self.lifecycle.destroyed THEN dontTouchDeads(self)
            ELSE IF op = "setFilter" THEN setFilter(self, <<"valIsOne">>)
            ELSE IF op = "getLast" THEN getLast(self)
            ELSE setCurrentPosition(self, Len(toArray(self)) - 1, FALSE))

NextDestroy ==
    \/ Destroy
    \/ SourceClear
    \/ PublicCall

SpecDestroy == Init /\ [][NextDestroy]_vars

\* An instance constructed with or without idProperty, unique off; uids
\* are asked for while the projection is grouped, filtered and shrinks.
InitUid ==
    \E list \in {[k \in 1..NumObjs |-> k]}, filters \in {<<>>, <<"valIsOne">>},
       g \in GroupArgs, idProp \in {"", "id"} :
        \E props \in SourceContents(list) :
            \E r \in {constructorWith(list, props, filters, <<>>, g, FALSE, idProp)} :
                Constructed(r, MaxDupOps)

NextUid ==
    \/ GetItemUid
    \/ SetGroup
    \/ SourceRemove

SpecUid == InitUid /\ [][NextUid]_vars

\* The lists of up to three different items of the projection.
ItemLists(S) ==
    {s \in UNION {[1..n -> S] : n \in 1..3} :
        \A j, k \in DOMAIN s : j # k => s[j] # s[k]}

\* _notifyCollectionChange(action, newItems, newItemsIndex, oldItems,
\* oldItemsIndex, session) of a grouped projection, as the analysis of a
\* session calls it: an add has no old items, a remove no new ones, a move
\* has the same items on both sides.  The call changes nothing but what
\* the listeners have received, so a second call in a row starts where the
\* first did and is left out.
NotifyCollectionChange ==
    \E self \in {Begin}, action \in {"a", "rm", "m"}, index \in 0..1 :
        \E list \in ItemLists(Range(items)) :
            /\ isGrouped(self)
            /\ trace.op # "notifyCollectionChange"
            /\ Run("notifyCollectionChange",
                   [notifyCollectionChange(self, action,
                        IF action = "rm" THEN <<>> ELSE list, index,
                        IF action = "a" THEN <<>> ELSE list, index, TRUE)
                    EXCEPT !.trace.changes = <<list>>, !.trace.replayed = <<index>>])

NextSplit ==
    \/ NotifyCollectionChange
    \/ SetGroup

SpecSplit == InitNav /\ [][NextSplit]_vars

\* The cursor operations.  setCurrent is given an item of the projection,
\* visible or not, or undefined.
SetCurrent ==
    \E self \in {Begin} :
        \E item \in Range(items) \cup {Undefined}, silent \in BOOLEAN :
            Run("setCurrent", setCurrent(self, item, silent))

MoveToNext ==
    \E self \in {Begin} : Run("moveToNext", moveToNext(self))

MoveToPrevious ==
    \E self \in {Begin} : Run("moveToPrevious", moveToPrevious(self))

\* moveToFirst on a projection that has a visible item: what the enumerator
\* does with a position behind the last one is not in the source.
MoveToFirst ==
    \E self \in {Begin} :
        /\ toArray(self) # <<>>
        /\ Run("moveToFirst", moveToFirst(self))

MoveToLast ==
    \E self \in {Begin} : Run("moveToLast", moveToLast(self))

NextCursor ==
    \/ SetCurrent
    \/ SetCurrentPosition
    \/ MoveToNext
    \/ MoveToPrevious
    \/ MoveToFirst
    \/ MoveToLast
    \/ SetEventRaising
    \/ SourceRemove

SpecCursor == InitNav /\ [][NextCursor]_vars

(* ============================ properties ============================== *)
(* The variables hold the instance between two operations.  `events` is    *)
(* what the last operation delivered to the listeners, `trace` what it    *)
(* was, what it handled and the sessions it has left unfinished.          *)

\* The items index i (0-based) is enumerated: each() and at() return it.
IsVisible(i) == Contains(internalToSource(Self), i)

\* Every active filter returns truthy for the data item at items index i.
PassesFilters(i) == isMatch(Self, items[i + 1], i, 0, TRUE)

\* C1: between operations a data (non-header) projection item is visible,
\* that is returned by enumeration and at, if and only if every active
\* filter returns truthy for it.
C1_VisibleIffPasses ==
    \A i \in 0..(Len(items) - 1) :
        IsDataItem(items[i + 1]) => (IsVisible(i) <=> PassesFilters(i))

\* C2: between operations the filter mask has exactly as many entries as
\* the materialised items sequence.
C2_MaskLength == Len(filterMap) = Len(items)

\* C3 as stated: between operations every index contained in sortMap has a
\* mask entry that is true.
C3_SortMapVisibleOnly ==
    \A k \in 1..Len(sortMap) : AtOr(filterMap, sortMap[k], MaskUndefined) = MaskTrue

\* C3, amended: between operations sortMap lists every index of items, the
\* hidden ones included, in ascending order; the mask is applied only when
\* the enumerator reads the map.
C3_SortMapIsIdentity == sortMap = Iota(Len(items))

\* After an operation the sort map contains the index of an item the mask
\* hides.
C3_Witness ==
    /\ trace.op # "new"
    /\ filter # <<>>
    /\ \E k \in 1..Len(sortMap) :
          AtOr(filterMap, sortMap[k], MaskUndefined) = MaskFalse

\* C4: between operations sortMap contains no index twice and every index
\* it contains lies in [0, |items|).
C4_SortMapInjective ==
    /\ \A k \in 1..Len(sortMap) : sortMap[k] \in 0..(Len(items) - 1)
    /\ \A k, l \in 1..Len(sortMap) : sortMap[k] = sortMap[l] => k = l

\* The source has added an object to a sorted projection and the sort map
\* was rebuilt over the longer items.
C4_Witness ==
    /\ trace.op = "add"
    /\ sort # <<>>
    /\ Len(sortMap) = 3

IsChange(e) == e.name = "onCollectionChange"

\* The number of onBeforeCollectionChange, of onAfterCollectionChange, among
\* the first k events.
Opened(evs, k) == Cardinality({j \in 1..k : evs[j] = Before})
Closed(evs, k) == Cardinality({j \in 1..k : evs[j] = After})

\* Brackets do not nest, every onCollectionChange is inside one and the last
\* one is closed.
WellBracketed(evs) ==
    /\ \A k \in 1..Len(evs) :
          /\ Opened(evs, k) - Closed(evs, k) \in {0, 1}
          /\ evs[k] = Before => Opened(evs, k - 1) = Closed(evs, k - 1)
          /\ IsChange(evs[k]) => Opened(evs, k) - Closed(evs, k) = 1
    /\ Opened(evs, Len(evs)) = Closed(evs, Len(evs))

\* The items a packet is about.
PacketItems(e) == IF e.action = "rm" THEN e.oldItems ELSE e.newItems

\* Every item of packet p stands before every item of packet q in `ref`.
Precede(p, q, ref) ==
    \A k \in 1..Len(PacketItems(p)), l \in 1..Len(PacketItems(q)) :
        (Contains(ref, PacketItems(p)[k]) /\ Contains(ref, PacketItems(q)[l]))
            => IndexOf(ref, PacketItems(p)[k]) < IndexOf(ref, PacketItems(q)[l])

\* Two packets of the same action that follow each other are in the order
\* of the enumeration: the one before the operation for removals, the one
\* after it otherwise.
InItemsOrder(evs, before, after) ==
    \A k \in 1..(Len(evs) - 1) :
        (IsChange(evs[k]) /\ IsChange(evs[k + 1]) /\ evs[k].action = evs[k + 1].action)
            => Precede(evs[k], evs[k + 1],
                       IF evs[k].action = "rm" THEN before ELSE after)

\* C5: what an operation delivers is a sequence of brackets
\* onBeforeCollectionChange, onCollectionChange packets in items order,
\* onAfterCollectionChange: no onCollectionChange is outside a bracket and
\* brackets neither nest nor interleave.
C5_Bracketed ==
    [][/\ WellBracketed(events')
       /\ InItemsOrder(events', toArray(Self), toArray(Self'))]_vars

\* An operation has delivered a bracket with two packets of one action.
C5_Witness ==
    /\ Len(events) >= 4
    /\ events[1] = Before
    /\ IsChange(events[2]) /\ IsChange(events[3])
    /\ events[2].action = events[3].action
    /\ events[Len(events)] = After

\* C6 as stated: no bracket is delivered with nothing between
\* onBeforeCollectionChange and onAfterCollectionChange.
C6_NoEmptyBracket ==
    \A k \in 1..(Len(events) - 1) : ~(events[k] = Before /\ events[k + 1] = After)

\* C6, amended: an operation that changes the filters, the sort, the group,
\* the uniqueness or the source while event raising is on closes its
\* session with onBeforeCollectionChange, zero or more onCollectionChange
\* and onAfterCollectionChange: the bracket is delivered even when nothing
\* has changed for the listeners.
C6_BracketAtClose ==
    [][(/\ eventRaising
        /\ \/ filter' # filter
           \/ sort' # sort
           \/ group' # group
           \/ unique' # unique
           \/ collection' # collection)
       => /\ Len(events') >= 2
          /\ events'[1] = Before
          /\ events'[Len(events')] = After]_vars

\* setFilter has changed the filters and no item's visibility: the bracket
\* is empty.
C6_Witness ==
    /\ trace.op = "setFilter"
    /\ events = <<Before, After>>

\* The changed item is in a change packet of the record c.
InPackets(c) ==
    \E j \in 1..Len(c.packets) :
        IsChange(c.packets[j]) /\ Contains(c.packets[j].newItems, c.internalItem)

\* C7 as stated: with event raising on, the changed item is in a change
\* packet if and only if it was not relocated to a smaller visible index.
C7_OmittedIffMovedUp ==
    \A k \in 1..Len(trace.changes) :
        trace.changes[k].eventRaising =>
            (InPackets(trace.changes[k]) <=>
                ~(/\ trace.changes[k].indexAfter >= 0
                  /\ trace.changes[k].indexBefore > trace.changes[k].indexAfter))

\* C7, amended: with event raising on, the changed item is in a change
\* packet if and only if its visible position after the change is not
\* smaller than before, a hidden item having position -1: an item that
\* moved upward or that became hidden is omitted, an item that moved
\* downward, kept its position or became visible is included.
C7_OmittedIffPositionSmaller ==
    \A k \in 1..Len(trace.changes) :
        trace.changes[k].eventRaising =>
            (InPackets(trace.changes[k]) <=>
                ~(trace.changes[k].indexBefore > trace.changes[k].indexAfter))

\* A per-item change has relocated the item upward and the change packet
\* was omitted.
C7_Witness ==
    \E k \in 1..Len(trace.changes) :
        /\ trace.changes[k].eventRaising
        /\ trace.changes[k].indexAfter >= 0
        /\ trace.changes[k].indexBefore > trace.changes[k].indexAfter
        /\ ~InPackets(trace.changes[k])

\* The group of a projection item.
GroupOfItem(x) == IF IsGroupItem(x) THEN x.contents ELSE GroupOf(x.contents)

\* The items of the packet share a group.
OneGroup(e) ==
    \A k, l \in 1..Len(PacketItems(e)) :
        GroupOfItem(PacketItems(e)[k]) = GroupOfItem(PacketItems(e)[l])

\* No group header stands inside the packet: a header starts its packet.
HeaderFirst(e) ==
    \A k \in 2..Len(PacketItems(e)) : ~IsGroupItem(PacketItems(e)[k])

\* The operations that notify without a session.
SessionlessOps == {"setSelectedItemsAll", "notifyItemChange"}

\* C8 as stated: with grouping active every onCollectionChange of an action
\* other than reset contains items of one group only, whichever operation
\* has emitted it.
C8_SplitAlways ==
    group # "null" =>
        \A k \in 1..Len(events) :
            (IsChange(events[k]) /\ events[k].action # "rs") => OneGroup(events[k])

\* C8, amended: with grouping active an onCollectionChange of an action
\* other than reset that is emitted with a session (by a source event or a
\* filter, sort, group or uniqueness change) is cut at every group header it
\* contains, so that a header is always the first item of its packet; items
\* whose headers are hidden are not separated, and the events that
\* selection changes and notifyItemChange emit are not split.
C8_SplitAtHeaders ==
    (group # "null" /\ trace.op \notin SessionlessOps) =>
        \A k \in 1..Len(events) :
            (IsChange(events[k]) /\ events[k].action # "rs") => HeaderFirst(events[k])

\* An operation with a session has delivered two packets of one action,
\* the second of which starts with a group header.
C8_Witness ==
    /\ group # "null"
    /\ trace.op \notin SessionlessOps
    /\ \E k \in 1..(Len(events) - 1) :
          /\ IsChange(events[k]) /\ IsChange(events[k + 1])
          /\ events[k].action = events[k + 1].action
          /\ events[k].action # "rs"
          /\ IsGroupItem(PacketItems(events[k + 1])[1])

\* C9: a per-item change that arrives while the source is not synchronised
\* delivers nothing and is appended to the delayed callbacks; when the
\* source is synchronised again the delayed callbacks are called once each,
\* first one first, and none is left.
C9_StoredAndReplayed ==
    [][/\ (trace'.op = "itemChange" /\ ~sourceCollectionSynchronized) =>
            /\ events' = <<>>
            /\ Len(sourceCollectionDelayedCallbacks') =
                  Len(sourceCollectionDelayedCallbacks) + 1
            /\ SubSeq(sourceCollectionDelayedCallbacks', 1,
                      Len(sourceCollectionDelayedCallbacks)) =
                  sourceCollectionDelayedCallbacks
       /\ (trace'.op = "eventRaisingChange" /\ sourceCollectionSynchronized') =>
            /\ trace'.replayed = sourceCollectionDelayedCallbacks
            /\ sourceCollectionDelayedCallbacks' = <<>>]_vars

\* C10: a mutator fails with the read-only error, delivers no event and
\* leaves items, filter mask, sort map, cursor and source as they were.
C10_MutatorsReadOnly ==
    [][trace'.op \in Mutators =>
          /\ thrown' = "ReadOnly"
          /\ events' = <<>>
          /\ items' = items
          /\ filterMap' = filterMap
          /\ sortMap' = sortMap
          /\ cursor' = cursor
          /\ collection' = collection
          /\ contents' = contents]_vars

\* A mutator has failed on a filtered projection the cursor of which stands
\* on an item.
C10_Witness ==
    /\ trace.op \in Mutators
    /\ thrown = "ReadOnly"
    /\ cursor.position >= 0
    /\ filter # <<>>
    /\ items # <<>>

\* The operations that are not events of the source.
ViewOps ==
    {"setFilter", "addFilter", "removeFilter", "setSort", "setGroup", "setUnique",
     "setEventRaising", "notifyItemChange", "setSelectedItems",
     "setSelectedItemsAll", "invertSelectedItemsAll", "getItemUid",
     "setCurrentPosition", "eventRaisingChange"}

\* The objects the values of which differ.
ChangedContents == {o \in Oids : contents'[o] # contents[o]}

\* C11: no operation of the projection changes the contents or the order
\* of the source, and while the projection handles an event of the source
\* the source stays as the source itself has made it: one object more, one
\* less, one replaced, one moved, all reversed or none left, one value
\* changed.
C11_SourceUntouched ==
    [][/\ trace'.op \in ViewOps =>
            collection' = collection /\ contents' = contents
       /\ trace'.op = "add" =>
            /\ \E i \in 0..Len(collection) :
                  /\ Splice(collection', i, 1, <<>>) = collection
                  /\ ChangedContents \subseteq {AtOr(collection', i, 0)}
       /\ trace'.op = "remove" =>
            /\ \E i \in 0..(Len(collection) - 1) :
                  /\ collection' = Splice(collection, i, 1, <<>>)
                  /\ ChangedContents \subseteq {collection[i + 1]}
       /\ trace'.op = "replace" =>
            /\ \E i \in 0..(Len(collection) - 1) :
                  /\ Len(collection') = Len(collection)
                  /\ Splice(collection', i, 1, <<>>) = Splice(collection, i, 1, <<>>)
                  /\ ChangedContents \subseteq {collection[i + 1], collection'[i + 1]}
       /\ trace'.op = "move" =>
            /\ \E from, to \in 0..(Len(collection) - 1) :
                  collection' = Splice(Splice(collection, from, 1, <<>>), to, 0,
                                       <<collection[from + 1]>>)
            /\ contents' = contents
       /\ trace'.op = "reset" =>
            \/ collection' = <<>>
            \/ /\ collection' = [k \in 1..Len(collection) |->
                                    collection[Len(collection) + 1 - k]]
               /\ contents' = contents
       /\ trace'.op \in {"itemChange", "change"} =>
            /\ collection' = collection
            /\ Cardinality(ChangedContents) = 1
            /\ ChangedContents \subseteq Range(collection)]_vars

\* A selection operation, a query, a setter and the handling of a removal
\* have run on a source that holds its two objects or one of them.
C11_Witness ==
    /\ trace.op \in {"setSelectedItems", "invertSelectedItemsAll", "getItemUid",
                      "setCurrentPosition", "setSort", "remove"}
    /\ collection # <<>>
    /\ opsLeft = 0

\* The instance after setFilter(f) followed by removeFilter(f).
SetThenRemove(f) == removeFilter(setFilter(Begin, <<f>>), f)

\* C12 as stated: from every state, after setFilter(f) followed by
\* removeFilter(f) the visible sequence is the one before setFilter(f), also
\* when other filters were active.
C12_RoundTripRestores ==
    \A f \in FilterHandlers : toArray(SetThenRemove(f)) = toArray(Self)

\* C12, amended: from every state, after setFilter(f) followed by
\* removeFilter(f) no filter is active and the visible sequence is the whole
\* of items, in items order; the filters that were active before
\* setFilter(f) are replaced by it and are not restored, so that the visible
\* sequence is the one before setFilter(f) exactly when every item was
\* visible then.
C12_RoundTripClears ==
    \A f \in FilterHandlers :
        \A r \in {SetThenRemove(f)} :
            \A after \in {toArray(r)} :
                /\ r.filter = <<>>
                /\ r.items = items
                /\ after = items
                /\ (after = toArray(Self)) <=> (toArray(Self) = items)

\* removeFilter has removed the last filter, which had hidden an item: the
\* item is added and everything is visible.
C12_Witness ==
    /\ trace.op = "removeFilter"
    /\ filter = <<>>
    /\ \E k \in 1..Len(events) : IsChange(events[k]) /\ events[k].action = "a"
    /\ toArray(Self) = items
    /\ \E f \in FilterHandlers : toArray(setFilter(Begin, <<f>>)) # items

\* The source objects whose items are enumerated.
VisibleObjs(self) ==
    {x.contents : x \in {y \in Range(toArray(self)) : IsDataItem(y)}}

\* The source objects for which every active filter returns truthy.
PassingObjs(self) ==
    {o \in Range(self.collection) : isMatch(self, CollectionItem(o), 0, 0, TRUE)}

\* The source objects that are the first of their id in the source.
FirstOfId(self) ==
    {o \in Range(self.collection) :
        \A p \in Range(self.collection) :
            IdOf(p) = IdOf(o) => IndexOf(self.collection, o) <= IndexOf(self.collection, p)}

\* C13: with unique set, of the source objects that share an id only the
\* first is visible (the objects the filters pass, firsts of their id, are
\* the visible ones: ids 1, 2, 1 give two visible items); and when unique
\* is switched off after it was on, every source object the filters pass is
\* visible again.
C13_UniqueHidesAndRestores ==
    [][/\ unique' => VisibleObjs(Self') = PassingObjs(Self') \cap FirstOfId(Self')
       /\ (trace'.op = "setUnique" /\ unique /\ ~unique') =>
              VisibleObjs(Self') = PassingObjs(Self')]_vars

\* The items of the projection: those of items, those unique keeps out of
\* items while their objects are in the source, and the group headers, which
\* the group strategy keeps while their groups are empty.
CurrentItems ==
    Range(items) \cup {CollectionItem(o) : o \in Range(directItems)}
                 \cup {e.item : e \in {x \in itemToUid : IsGroupItem(x.item)}}

\* C14: between operations the uid set is the set of the uids of the
\* current items that were asked for their uid: it holds no uid of an item
\* that was removed, replaced or dropped by a reset.
C14_UidSetIsCurrent ==
    itemsUid = {e.uid : e \in {x \in itemToUid : x.item \in CurrentItems}}

\* The base id of an item: the id of its object as a string; the string of
\* undefined for a group header, the contents of which has no id.
BaseId(item) ==
    IF IsGroupItem(item) THEN "undefined" ELSE ToString(IdOf(item.contents))

\* The base id followed by '-' and k.
Suffixed(baseId, k) == baseId \o "-" \o ToString(k)

\* An item has one uid and a uid belongs to one item.
OneToOne(map) ==
    \A e1 \in map, e2 \in map : (e1.item = e2.item) <=> (e1.uid = e2.uid)

\* C15: getItemUid returns distinct strings for distinct items and the
\* string it returned before for the item it is asked again; for an item it
\* is asked first it returns the base id when that is not in the uid set,
\* and otherwise the base id followed by '-' and the smallest k >= 1 that
\* makes a string not in the uid set; the uid set gains the result.
C15_UidDistinctAndStable ==
    [][trace'.op = "getItemUid" =>
          /\ [item |-> trace'.item, uid |-> trace'.result] \in itemToUid'
          /\ OneToOne(itemToUid')
          /\ (\E e \in itemToUid : e.item = trace'.item) =>
                /\ [item |-> trace'.item, uid |-> trace'.result] \in itemToUid
                /\ itemToUid' = itemToUid
                /\ itemsUid' = itemsUid
          /\ ~(\E e \in itemToUid : e.item = trace'.item) =>
                /\ itemsUid' = itemsUid \cup {trace'.result}
                /\ trace'.result \notin itemsUid
                /\ BaseId(trace'.item) \notin itemsUid =>
                        trace'.result = BaseId(trace'.item)
                /\ BaseId(trace'.item) \in itemsUid =>
                        \E k \in 1..Cardinality(itemsUid) :
                            /\ trace'.result = Suffixed(BaseId(trace'.item), k)
                            /\ \A j \in 1..(k - 1) :
                                  Suffixed(BaseId(trace'.item), j) \in itemsUid]_vars

\* Two objects of the source have the same id: the item of the one has the
\* base id for its uid, the item of the other, asked last, the base id with
\* the suffix -1.
C15_Witness ==
    /\ trace.op = "getItemUid"
    /\ IsDataItem(trace.item)
    /\ trace.result = Suffixed(BaseId(trace.item), 1)
    /\ \E e \in itemToUid :
          /\ e.item # trace.item
          /\ e.item \in Range(items)
          /\ e.uid = BaseId(trace.item)

\* The object the source has added in this step.
AddedObj == CHOOSE o \in Range(collection') : o \notin Range(collection)

\* C16 as stated: when the source adds one object that passes the active
\* filters, the listeners receive onBeforeCollectionChange, one
\* onCollectionChange with action add, the new item and its visible
\* position, and onAfterCollectionChange, whatever the grouping, the
\* uniqueness and the event raising of the projection are.
C16_OneAddEvent ==
    [][(trace'.op = "add" /\ AddedObj \in PassingObjs(Self')) =>
          events' = <<Before,
                      Change("a", <<CollectionItem(AddedObj)>>,
                             getIndex(Self', CollectionItem(AddedObj)), <<>>, 0),
                      After>>]_vars

\* The add packets of evs that contain the item.
AddPacketsOf(evs, item) ==
    {k \in 1..Len(evs) : /\ IsChange(evs[k])
                          /\ evs[k].action = "a"
                          /\ Contains(evs[k].newItems, item)}

\* evs is one bracket: onBeforeCollectionChange first, onAfterCollectionChange
\* last, onCollectionChange between them.
OneBracket(evs) ==
    /\ Len(evs) >= 2
    /\ evs[1] = Before
    /\ evs[Len(evs)] = After
    /\ \A k \in 2..(Len(evs) - 1) : IsChange(evs[k])

\* C16, amended: when the source adds one object, event raising is on and
\* the new item is visible afterwards (it passes the filters and unique
\* does not keep it out), the listeners receive one bracket in which
\* exactly one onCollectionChange with action add contains the new item, at
\* its visible position; it is the only event of the bracket and holds the
\* new item alone when nothing else has changed in the visible sequence.
\* The header of a group the object starts comes in the same packet and the
\* items the re-filtering shows or hides are reported in the same bracket.
C16_AddEventHoldsItem ==
    [][(/\ trace'.op = "add"
        /\ eventRaising
        /\ getIndex(Self', CollectionItem(AddedObj)) # -1) =>
          \A item \in {CollectionItem(AddedObj)} :
          \A index \in {getIndex(Self', item)} :
              /\ OneBracket(events')
              /\ Cardinality(AddPacketsOf(events', item)) = 1
              /\ \A k \in AddPacketsOf(events', item) :
                    events'[k].newItemsIndex + IndexOf(events'[k].newItems, item) = index
              /\ Splice(toArray(Self'), index, 1, <<>>) = toArray(Self) =>
                    events' = <<Before, Change("a", <<item>>, index, <<>>, 0), After>>]_vars

\* The source has added an object behind a hidden item: one add packet with
\* the new item alone, at its visible position, which is not its index in
\* items.
C16_Witness ==
    /\ trace.op = "add"
    /\ filter # <<>>
    /\ Len(events) = 3
    /\ events[1] = Before
    /\ events[2].action = "a"
    /\ Len(events[2].newItems) = 1
    /\ events[2].newItemsIndex = getIndex(Self, events[2].newItems[1])
    /\ events[2].newItemsIndex < IndexOf(items, events[2].newItems[1])
    /\ events[3] = After

\* The header that stands nearest before position k of seq (1-based), or
\* Undefined.
HeaderBefore(seq, k) ==
    IF \E j \in 1..(k - 1) : IsGroupItem(seq[j])
    THEN seq[CHOOSE j \in 1..(k - 1) :
                /\ IsGroupItem(seq[j])
                /\ \A i \in (j + 1)..(k - 1) : ~IsGroupItem(seq[i])]
    ELSE Undefined

\* The smallest source index of a member of group g that seq holds.
FirstInSource(seq, g) ==
    CHOOSE i \in 0..Len(collection) :
        /\ \/ i = Len(collection)
           \/ (GroupOf(collection[i + 1]) = g
                 /\ Contains(seq, CollectionItem(collection[i + 1])))
        /\ \A j \in 0..(i - 1) :
              ~(GroupOf(collection[j + 1]) = g
                 /\ Contains(seq, CollectionItem(collection[j + 1])))

\* seq is made of groups: a header per group id, each header followed by
\* the members of its group that seq holds, in source order, the groups in
\* the order in which their first members stand in the source.
GroupedLayout(seq) ==
    /\ \A k, l \in 1..Len(seq) :
          (IsGroupItem(seq[k]) /\ seq[k] = seq[l]) => k = l
    /\ \A k \in 1..Len(seq) :
          IsDataItem(seq[k]) => HeaderBefore(seq, k) = GroupItem(GroupOf(seq[k].contents))
    /\ \A k, l \in 1..Len(seq) :
          (k < l /\ IsDataItem(seq[k]) /\ IsDataItem(seq[l])
                 /\ GroupOf(seq[k].contents) = GroupOf(seq[l].contents))
            => IndexOf(collection, seq[k].contents) < IndexOf(collection, seq[l].contents)
    /\ \A k, l \in 1..Len(seq) :
          (k < l /\ IsGroupItem(seq[k]) /\ IsGroupItem(seq[l]))
            => FirstInSource(seq, seq[k].contents) < FirstInSource(seq, seq[l].contents)

SelectionOps == {"setSelectedItems", "setSelectedItemsAll", "invertSelectedItemsAll"}

\* The items the selected flag of which the step has changed.
Flipped == (selected' \ selected) \cup (selected \ selected')

\* C18 as stated: every selection operation that changes the selected flag
\* of at least one item delivers an onCollectionChange with action replace
\* that holds the items whose flag has changed.
C18_SelectionEmitsReplace ==
    [][(trace'.op \in SelectionOps /\ Flipped # {}) =>
          \E k \in 1..Len(events') :
              /\ IsChange(events'[k])
              /\ events'[k].action = "rp"
              /\ Range(events'[k].newItems) = Flipped]_vars

\* C18, amended: with event raising on, setSelectedItems and
\* setSelectedItemsAll that change the flag of at least one item deliver one
\* bracket with one onCollectionChange with action replace, the new and the
\* old items of which are the items whose flag has changed, last one first,
\* at the visible position of the first of them (-1 when it is hidden);
\* invertSelectedItemsAll delivers one bracket with one onCollectionChange
\* with action reset that holds all items, hidden ones included.  Nothing
\* is delivered when no flag changes, when event raising is off, and when
\* setSelectedItems fails on an object that has no visible item, although
\* flags may have changed by then.
C18_SelectionEvents ==
    [][trace'.op \in SelectionOps =>
          /\ (trace'.op # "invertSelectedItemsAll"
                /\ Flipped # {} /\ eventRaising /\ thrown' = "none") =>
                /\ Len(events') = 3
                /\ events'[1] = Before
                /\ events'[3] = After
                /\ IsChange(events'[2])
                /\ events'[2].action = "rp"
                /\ Range(events'[2].newItems) = Flipped
                /\ Len(events'[2].newItems) = Cardinality(Flipped)
                /\ events'[2].oldItems = events'[2].newItems
                /\ events'[2].newItemsIndex = getIndex(Self', events'[2].newItems[1])
                /\ events'[2].oldItemsIndex = events'[2].newItemsIndex
                /\ trace'.op = "setSelectedItemsAll" =>
                      \A k, l \in 1..Len(events'[2].newItems) :
                          k < l => IndexOf(items, events'[2].newItems[k])
                                      > IndexOf(items, events'[2].newItems[l])
          /\ (trace'.op = "invertSelectedItemsAll" /\ eventRaising) =>
                events' = <<Before, Change("rs", items, 0, items, 0), After>>
          /\ (\/ ~eventRaising
              \/ thrown' # "none"
              \/ (trace'.op # "invertSelectedItemsAll" /\ Flipped = {})) =>
                events' = <<>>
          /\ thrown' \in {"none", "TypeError"}
          /\ thrown' = "TypeError" => trace'.op = "setSelectedItems"
          /\ items' = items]_vars

\* setSelectedItems has set the flag of two visible items and has delivered
\* one replace packet with both.
C18_Witness ==
    /\ trace.op = "setSelectedItems"
    /\ Len(events) = 3
    /\ events[2].action = "rp"
    /\ Len(events[2].newItems) = 2
    /\ Range(events[2].newItems) \subseteq selected

\* C19: from every state, invertSelectedItemsAll applied twice in a row
\* leaves the selected flag of every item, visible or hidden, data item or
\* header, as it was before the first call, and the first call changes the
\* flag of every item.
C19_InvertTwice ==
    \A once \in {invertSelectedItemsAll(Begin)} :
        \A twice \in {invertSelectedItemsAll([once EXCEPT !.events = <<>>])} :
            /\ \A x \in Range(items) : (x \in once.selected) <=> (x \notin selected)
            /\ twice.selected = selected
            /\ twice.items = items

\* invertSelectedItemsAll has run on a projection one item of which was
\* selected: a header and a hidden item are selected now, a visible item is
\* not.
C19_Witness ==
    /\ trace.op = "invertSelectedItemsAll"
    /\ \E x \in selected : IsGroupItem(x)
    /\ \E i \in 0..(Len(items) - 1) :
          IsDataItem(items[i + 1]) /\ ~IsVisible(i) /\ items[i + 1] \in selected
    /\ \E i \in 0..(Len(items) - 1) : IsVisible(i) /\ items[i + 1] \notin selected

\* C20: a setSort whose handler list is element-wise identical to the
\* current one delivers no event and leaves items, the sort map and the
\* filter mask as they were.
C20_SameSortIsSilent ==
    [][(trace'.op = "setSort" /\ sort' = sort) =>
          /\ events' = <<>>
          /\ items' = items
          /\ sortMap' = sortMap
          /\ filterMap' = filterMap]_vars

\* setSort has been called with the handler the projection is sorted by
\* already: event raising is on and the order differs from the source's, so
\* a call that had changed the handlers had delivered a move.
C20_Witness ==
    /\ trace.op = "setSort"
    /\ sort = <<"sortByVal">>
    /\ eventRaising
    /\ events = <<>>
    /\ group = "null"
    /\ filter = <<>>
    /\ collection = <<1, 2>>
    /\ contents[1] > contents[2]
    /\ toArray(Self) # <<>>

\* C21: in every state, setFilter called with the current filter list
\* leaves the instance as it is (the filter list, the mask, the items and
\* every other field) and delivers nothing.
C21_SameFilterIsNoOp ==
    \A r \in {setFilter(Begin, filter)} :
        /\ r.events = <<>>
        /\ r = Begin

\* setFilter has set a list that hides an item while event raising is on:
\* the call the formula makes is a second setFilter with the same list.
C21_Witness ==
    /\ trace.op = "setFilter"
    /\ filter = <<"valIsOne", "notEmpty">>
    /\ eventRaising
    /\ events # <<>>
    /\ \E i \in 0..(Len(items) - 1) : ~IsVisible(i)
    /\ \E i \in 0..(Len(items) - 1) : IsVisible(i)

\* C22: in every state, setGroup called with the current group handler
\* delivers nothing and leaves items, the sort map, the filter mask, the
\* important properties and every other field as they are; so of two
\* consecutive setGroup(g) only the first can deliver events.
C22_SameGroupIsNoOp ==
    \A r \in {setGroup(Begin, group)} :
        /\ r.events = <<>>
        /\ r.items = items
        /\ r.sortMap = sortMap
        /\ r.filterMap = filterMap
        /\ r.importantItemProperties = importantItemProperties
        /\ r = Begin

\* setGroup(g) has grouped the projection and delivered events: the call
\* the formula makes is a second setGroup(g).
C22_Witness ==
    /\ trace.op = "setGroup"
    /\ group = "groupByG"
    /\ eventRaising
    /\ events # <<>>
    /\ \E x \in Range(items) : IsGroupItem(x)

\* The handlers that are active and declare properties.
ActiveFunctors ==
    {sort[k] : k \in 1..Len(sort)} \cup (IF group = "null" THEN {} ELSE {group})

\* C23: every property an active sort or group handler declares is among
\* the important properties, and a property no active handler declares
\* (idProperty aside) is not.
C23_DeclaredAreImportant ==
    /\ \A f \in ActiveFunctors :
          IsFunctor(f) => FunctorProperties(f) \subseteq importantItemProperties
    /\ \A p \in importantItemProperties \ {"id"} :
          \E f \in ActiveFunctors : IsFunctor(f) /\ p \in FunctorProperties(f)

\* C24: a per-item change the source reports while the changed property v
\* is not an important property leaves items, the sort map and the filter
\* mask as they were.
C24_UnimportantChangeKeepsMaps ==
    [][(trace'.op = "itemChange" /\ "v" \notin importantItemProperties) =>
          /\ items' = items
          /\ sortMap' = sortMap
          /\ filterMap' = filterMap
          /\ importantItemProperties' = importantItemProperties]_vars

\* The notification has been handled while v was not important: the item
\* that has changed no longer passes the filter and is visible still.
C24_Witness ==
    /\ trace.op = "itemChange"
    /\ Len(trace.changes) = 1
    /\ "v" \notin importantItemProperties
    /\ filter = <<"valIsOne">>
    /\ \E i \in 0..(Len(items) - 1) :
          /\ IsVisible(i)
          /\ items[i + 1] = trace.changes[1].internalItem
          /\ contents[items[i + 1].contents] # 1

\* C25: for every source object whose projection item exists and passes
\* the filters, getItemBySourceItem is defined and getSourceIndexByItem of
\* it is the object's index in the source.
C25_SourceItemRoundTrip ==
    \A x \in Range(collection) :
        (\E i \in 0..(Len(items) - 1) :
            items[i + 1] = CollectionItem(x) /\ PassesFilters(i)) =>
        \A it \in {getItemBySourceItem(Self, x)} :
            /\ it # Undefined
            /\ getSourceIndexByItem(Self, it) = IndexOf(collection, x)

\* The visible positions (1-based) of the data items.
DataPositions(array) == {p \in 1..Len(array) : IsDataItem(array[p])}

\* The visible data item nearest to position p in the direction, or
\* undefined.
NearestData(array, p, isNext) ==
    LET ahead == {q \in DataPositions(array) : IF isNext THEN q > p ELSE q < p}
    IN  IF ahead = {} THEN Undefined
        ELSE array[CHOOSE q \in ahead :
                     \A r \in ahead : IF isNext THEN q <= r ELSE q >= r]

\* C27 (getFirst): on a projection with a visible item, getFirst returns
\* the first visible item that is no group header, undefined when there is
\* none.
C27_FirstIsFirstData ==
    \A array \in {toArray(Self)} :
        array # <<>> =>
            getFirst(Begin).trace.item = NearestData(array, 0, TRUE)

\* C27 (getNext, getPrevious): getNext and getPrevious of a visible item
\* return the nearest visible item in the direction that is no group
\* header, undefined when there is none.
C27_NearbyIsNearestData ==
    \A array \in {toArray(Self)} :
        \A p \in 1..Len(array), isNext \in BOOLEAN :
            getNearbyItem(Begin, array[p], isNext).trace.item =
                NearestData(array, p, isNext)

\* C27 (getLast): getLast returns the last visible item that is no group
\* header, undefined when there is none.
C27_LastIsLastData ==
    \A array \in {toArray(Self)} :
        getLast(Begin).trace.item = NearestData(array, Len(array) + 1, FALSE)

\* C27: getFirst, getLast, getNext and getPrevious return the first, the
\* last and the nearest visible item that is no group header; each returns
\* a data item whenever there is one in the direction.
C27_SkipGroupHeaders ==
    /\ C27_FirstIsFirstData
    /\ C27_LastIsLastData
    /\ C27_NearbyIsNearestData

\* The queries of the navigation runs.
QueryOps == {"getFirst", "getLast", "getNext", "getPrevious", "getItemBySourceItem"}

MembersOf(id) ==
    SelectSeq(toArray(Self),
              LAMBDA x : IsDataItem(x) /\ CallGroup(Self, x.contents) = id)

\* C28: on a grouped projection getGroupItems(id) returns exactly the
\* visible data items whose group handler value is id, in visible order,
\* also when the header of a group is hidden and its members are visible.
C28_GroupItemsAreMembers ==
    group # "null" =>
        \A id \in {GroupOf(o) : o \in Oids} :
            getGroupItems(Self, id, 1, 0) = MembersOf(id)

\* The events end with one bracket that holds one change event of the item
\* at index i, and no event before that bracket is a change event.
EndsWithChangeOf(evs, item, i) ==
    /\ Len(evs) >= 3
    /\ SubSeq(evs, Len(evs) - 2, Len(evs)) =
          <<Before, Change("ch", <<item>>, i, <<item>>, i), After>>
    /\ \A k \in 1..(Len(evs) - 3) : evs[k].action # "ch"
    /\ WellBracketed(SubSeq(evs, 1, Len(evs) - 3))

Internals == <<items, directItems, filterMap, sortMap, itemToUid, itemsUid, cursor, utility>>

C32_NoIdPropertyFails ==
    [][(trace'.op = "getItemUid" /\ idProperty = "") =>
          /\ thrown' = "MissingIdProperty"
          /\ itemToUid' = itemToUid
          /\ itemsUid' = itemsUid
          /\ itemToUid' = {} /\ itemsUid' = {}
          /\ events' = <<>>]_vars

\* getItemUid of a group header has failed on an instance without
\* idProperty, after an earlier operation.
C32_Witness ==
    /\ idProperty = ""
    /\ trace.op = "getItemUid"
    /\ IsGroupItem(trace.item)
    /\ thrown = "MissingIdProperty"
    /\ itemToUid = {}
    /\ opsLeft <= MaxDupOps - 2

\* A data member of the group of the header at index i of items is visible.
HasVisibleMember(i) ==
    \E j \in 0..(Len(items) - 1) :
        /\ IsDataItem(items[j + 1])
        /\ CallGroup(Self, items[j + 1].contents) = items[i + 1].contents
        /\ IsVisible(j)

\* C33: between operations, while filters are set, the mask entry of every
\* group header is what the filters return for the header when they are told
\* whether a data member of its group is visible.
C33_HeaderFollowsMembers ==
    isFiltered(Self) =>
        \A i \in 0..(Len(items) - 1) :
            IsGroupItem(items[i + 1]) =>
                (IsVisible(i) <=>
                    isMatch(Self, items[i + 1], i, i, HasVisibleMember(i)))

\* The mask of the instance r passes index k.
MaskPasses(r, k) == AtOr(r.filterMap, k, MaskUndefined) = MaskTrue

\* The mask entry of index k of the instance r is what the filters return
\* now: for a data item their result, for a group header their result when
\* told whether the mask passes a data member of its group.
FreshAt(r, k) ==
    MaskPasses(r, k) <=>
        isMatch(r, r.items[k + 1], k, k,
                /\ IsGroupItem(r.items[k + 1])
                /\ \E j \in 0..(Len(r.items) - 1) :
                      /\ IsDataItem(r.items[j + 1])
                      /\ CallGroup(r, r.items[j + 1].contents) = r.items[k + 1].contents
                      /\ MaskPasses(r, j))

\* The object at source index i has changed its v to c: the instance when
\* the notification arrives.
ChangedAt(i, c) == BeginWith(collection, [contents EXCEPT ![collection[i + 1]] = c])

\* C34: in every state where v is important, for every object that has an
\* item in items and every new value of its v, the re-analysis of the change re-evaluates every mask
\* entry when the item's index in items changes or a filter has arity 4 or
\* more; otherwise it re-evaluates the entry of the item and leaves every
\* other mask entry as it was.
C34_WholeOrRange ==
    "v" \in importantItemProperties =>
        \A i \in 0..(Len(collection) - 1), c \in Contents :
            \A self \in {ChangedAt(i, c)} :
            \A r \in {reAnalize(self, i, 1)} :
            \A indexBefore \in {getDisplayIndex(self, i)} :
            \A indexAfter \in {getDisplayIndex(r, i)} :
                indexBefore < Len(self.items) =>
                IF indexBefore # indexAfter \/ isFilteredByIndex(self)
                THEN \A k \in 0..(Len(r.items) - 1) : FreshAt(r, k)
                ELSE /\ FreshAt(r, indexAfter)
                     /\ \A k \in 0..(Max(Len(self.filterMap), Len(r.filterMap)) - 1) :
                           k # indexAfter =>
                              AtOr(r.filterMap, k, MaskUndefined) =
                                  AtOr(self.filterMap, k, MaskUndefined)

\* A change of v has been re-analysed while v was important and a filter
\* of arity 1 hides an item: of the changes that can follow, one moves its
\* item and one changes the mask entry of an item that stays where it is.
C34_Witness ==
    /\ "v" \in importantItemProperties
    /\ trace.op = "itemChange"
    /\ Len(trace.changes) = 1
    /\ isFiltered(Self) /\ ~isFilteredByIndex(Self)
    /\ \E k \in 0..(Len(items) - 1) : ~IsVisible(k)
    /\ \E i \in 0..(Len(collection) - 1), c \in Contents :
          getDisplayIndex(ChangedAt(i, c), i) # getDisplayIndex(reAnalize(ChangedAt(i, c), i, 1), i)
    /\ \E i \in 0..(Len(collection) - 1), c \in Contents :
          /\ getDisplayIndex(ChangedAt(i, c), i) = getDisplayIndex(reAnalize(ChangedAt(i, c), i, 1), i)
          /\ reAnalize(ChangedAt(i, c), i, 1).filterMap # filterMap

C36_RebuildBeforeReplay ==
    ~sourceCollectionSynchronized =>
        /\ \A r \in {onEventRaisingChange(Begin, TRUE, FALSE)} :
              /\ r.sourceCollectionSynchronized
              /\ r.trace.replayed = sourceCollectionDelayedCallbacks
              /\ r.sourceCollectionDelayedCallbacks = <<>>
              /\ \A k \in 1..Len(r.events) :
                    IsChange(r.events[k]) => r.events[k].action = "ch"
              /\ r.directItems = collection
              /\ r.items = StrategyItems(r)
              /\ r.sortMap = Iota(Len(r.items))
              /\ Len(r.filterMap) = Len(r.items)
              /\ \A k \in 0..(Len(r.items) - 1) : FreshAt(r, k)
        /\ \A r \in {onEventRaisingChange(Begin, TRUE, TRUE)} :
              sourceCollectionDelayedCallbacks = <<>> =>
                  r = [Begin EXCEPT !.sourceCollectionSynchronized = TRUE]

\* The source is silent, a change of v is delayed and the items are not in
\* the order the sort gives them now: replayed without a rebuild, the
\* notification moves an item.
C36_Witness ==
    /\ ~sourceCollectionSynchronized
    /\ trace.op = "itemChange"
    /\ sourceCollectionDelayedCallbacks # <<>>
    /\ items # StrategyItems(Self)
    /\ \E k \in 1..Len(onEventRaisingChange(Begin, TRUE, TRUE).events) :
          onEventRaisingChange(Begin, TRUE, TRUE).events[k].action = "m"
    /\ onEventRaisingChange(Begin, TRUE, FALSE).events # <<>>

\* The lists of seqs, one after the other.
RECURSIVE Flatten(_)
Flatten(seqs) == IF seqs = <<>> THEN <<>> ELSE Head(seqs) \o Flatten(Tail(seqs))

\* The index a packet reports for its items.
PacketIndex(e) == IF e.action = "rm" THEN e.oldItemsIndex ELSE e.newItemsIndex

\* C37: when _notifyCollectionChange splits a list by groups, with event
\* raising on, the items of the packets, in the order the packets are
\* delivered, are the list; no packet is empty; a group header is the first
\* item of its packet; and a packet's index is the index of the list plus
\* the number of items in the packets before it.
C37_PacketsMakeTheList ==
    [][(trace'.op = "notifyCollectionChange" /\ eventRaising) =>
          \A list \in {trace'.changes[1]}, index \in {trace'.replayed[1]} :
              /\ Len(events') >= 1
              /\ \A k \in 1..Len(events') : IsChange(events'[k])
              /\ Flatten([k \in 1..Len(events') |-> PacketItems(events'[k])]) = list
              /\ \A k \in 1..Len(events') :
                    /\ PacketItems(events'[k]) # <<>>
                    /\ \A j \in 2..Len(PacketItems(events'[k])) :
                          ~IsGroupItem(PacketItems(events'[k])[j])
                    /\ PacketIndex(events'[k]) =
                          index + Len(Flatten([j \in 1..(k - 1) |->
                                                 PacketItems(events'[j])]))]_vars

\* A list of a data item and two headers, passed with index 1, has been
\* delivered in three packets, the last one the second header alone at
\* index 3.
C37_Witness ==
    /\ trace.op = "notifyCollectionChange"
    /\ Len(events) = 3
    /\ Len(trace.changes[1]) = 3
    /\ IsDataItem(trace.changes[1][1])
    /\ IsGroupItem(trace.changes[1][2])
    /\ IsGroupItem(trace.changes[1][3])
    /\ trace.replayed[1] = 1
    /\ PacketItems(events[3]) = <<trace.changes[1][3]>>
    /\ PacketIndex(events[3]) = 3

\* C38: when an operation returns, every update session it started has been
\* finished by it, on the paths that return early too.
C38_SessionsFinished ==
    trace.unfinished = 0

\* C39: setSelectedItems with one or two source values, each in the source
\* or not, its item visible or not, completes without an error, and every
\* listed value that has a visible item has its selected flag set to the
\* given one afterwards.
C39_SelectSkipsMissing ==
    \A o1 \in Oids, o2 \in Oids, flag \in BOOLEAN :
        \A objs \in {IF o1 = o2 THEN <<o1>> ELSE <<o1, o2>>} :
        \A r \in {setSelectedItemsPublic(Begin, objs, flag)} :
            /\ r.thrown = "none"
            /\ \A k \in 1..Len(objs) :
                  \A item \in {getItemBySourceItem(Begin, objs[k])} :
                      item # Undefined => (item \in r.selected <=> flag)

\* The outcome r of a cursor operation applied in the current state: an
\* onCurrentChange is delivered exactly when the cursor has changed and the
\* call was not silent, and it reports the cursor's item and position after
\* and before the call.
CursorExact(r, silent) ==
    /\ r.thrown = "none"
    /\ (r.events # <<>>) <=> (r.cursor # cursor /\ ~silent)
    /\ r.events # <<>> =>
          r.events = <<CurrentChange(r.cursor.current, cursor.current,
                                     r.cursor.position, cursor.position)>>

\* C40: with event raising on, setCurrent, setCurrentPosition, moveToNext,
\* moveToPrevious, moveToFirst and moveToLast deliver onCurrentChange
\* exactly when they change the cursor and are not called silent, with the
\* cursor's item and position after and before the call; a call that
\* targets the current item or position, and a move that has no item to
\* move to, delivers nothing and leaves the cursor as it was.
C40_CurrentChangeExact ==
    eventRaising =>
        /\ \A item \in Range(items) \cup {Undefined}, silent \in BOOLEAN :
              /\ CursorExact(setCurrent(Begin, item, silent), silent)
              /\ item = cursor.current =>
                    setCurrent(Begin, item, silent).cursor = cursor
        /\ \A position \in -1..(Len(toArray(Self)) - 1), silent \in BOOLEAN :
              /\ CursorExact(setCurrentPosition(Begin, position, silent), silent)
              /\ position = cursor.position =>
                    setCurrentPosition(Begin, position, silent).cursor = cursor
        /\ CursorExact(moveToNext(Begin), FALSE)
        /\ CursorExact(moveToPrevious(Begin), FALSE)
        /\ toArray(Self) # <<>> => CursorExact(moveToFirst(Begin), FALSE)
        /\ CursorExact(moveToLast(Begin), FALSE)
        /\ moveToNext(Begin).trace.result = "false" => moveToNext(Begin).cursor = cursor
        /\ moveToPrevious(Begin).trace.result = "false" =>
              moveToPrevious(Begin).cursor = cursor

====
